---- MODULE Spec2Model ----
(***************************************************************************)
(* QuickScript backend: the resumable processing pipeline of               *)
(* backend/app/main.py and the checkpoint store of                         *)
(* backend/app/services/checkpoint_service.py.                             *)
(*                                                                         *)
(* Three specifications share the definitions of the store:                *)
(*   SpecStore  the store's handlers, each one atomic step, called with    *)
(*              arbitrary arguments while the environment replaces the     *)
(*              input file and damages records;                            *)
(*   SpecConc   the same handlers cut at their await points, run by        *)
(*              concurrent tasks through the two CheckpointService         *)
(*              instances of the process, with process crashes;            *)
(*   Spec       process_media_file / process_media_url for one job id,     *)
(*              run, interrupted and run again.                            *)
(*                                                                         *)
(* Abstractions: a file's content is a sequence of 1 MiB blocks; MD5 is    *)
(* taken to be collision free; datetime.now() never returns the same value *)
(* twice (a counter).                                                      *)
(***************************************************************************)
EXTENDS Integers, Sequences, FiniteSets, TLC

\* ------------------------------------------------------------------ bounds
\* Longest file, in 1 MiB blocks.
MaxFileBlocks == 2
\* Number of datetime.now() readings taken by the hash fallback in one behaviour.
MaxTs == 2
\* Number of times the job of Spec is started: the first run and the re-runs.
MaxRuns == 2
\* Number of failures (of a checkpoint save, an engine, a download or the write of
\* the result) injected into one behaviour of Spec.
MaxFaults == 1
\* Largest number of chunks a chunked call of SpecChunk splits its input into.
MaxChunks == 4
\* SpecMerge: the largest number of chunk transcripts handed to one merge, the
\* largest number of segments in all of them together, and the largest start or
\* end time of a segment within its chunk.
MaxMergeChunks == 3
MaxSegments == 3
MaxTime == 1
\* SpecSweep: the latest hour of the clock, and the largest max_age_hours a
\* sweep is called with.
MaxClock == 2
MaxAge == 1
\* SpecCache: the number of blocks of a synthesized document.
MaxDocBlocks == 2
\* SpecSplit: the number of segments of a transcript handed to the synthesis
\* splitter.
MaxSplitSegments == 4

\* ------------------------------------------------------- program constants
\* f.read(1024 * 1024): the hashed prefix, in 1 MiB blocks.
HashPrefixBlocks == 1
\* asyncio.Semaphore(3) of _chunked_transcribe and asyncio.Semaphore(2) of
\* _process_long_text.
TranscribeLimit == 3
SynthesisLimit == 2
\* Hours between "2000-01-01T00:00:00", the timestamp clean_old_checkpoints takes
\* for a record without one, and hour 0 of the clock of SpecSweep.
DefaultTimestampAge == 200000
\* `chunk_size = 5000` of _process_long_text, in characters.
ChunkSize == 5000

VARIABLES
    fs,        \* the file system outside the checkpoint directory: path -> content
    store,     \* the checkpoint directory: file name -> text of the file
    tsCalls,   \* readings of datetime.now() taken by _calculate_file_hash so far
    ret,       \* the load_checkpoint call that has just returned, with its result
    saved,     \* history: name -> the arguments and input of the last save that
               \* succeeded on it, while the record it wrote is still in place
    lock,      \* SpecConc: CheckpointService instance -> the task inside its
               \* `async with self._lock`, or Free
    task,      \* SpecConc: task -> the store call it is in and how far it has got
    job_statuses, \* Spec: main.py's registry, job id -> status record
    pc,        \* Spec: the await the job's background task is suspended at
    loc,       \* Spec: the local variables of that task
    run,       \* Spec: how many times the job has been started
    invoked,   \* Spec: stage -> engine invocations in the current run
    hist,      \* Spec: history of the current run, for the claims
    ck,        \* SpecChunk: the chunked call: its service and its number of chunks
    cpc,       \* SpecChunk: where the calling coroutine is
    wpc,       \* SpecChunk: chunk index -> where that chunk's task is
    sem,       \* SpecChunk: the value of the call's semaphore
    finished,  \* SpecChunk: the results of the tasks, in the order they completed
    chunkFiles,\* SpecChunk: the chunk files on disk, by chunk index
    merged     \* SpecChunk: what the call returned

storeVars == <<fs, store, tsCalls, ret, saved>>
concVars == <<lock, task>>
pipeVars == <<job_statuses, pc, loc, run, invoked, hist>>
chunkVars == <<ck, cpc, wpc, sem, finished, chunkFiles, merged>>
vars == <<storeVars, concVars, pipeVars, chunkVars>>

\* ------------------------------------------------------------- file system
Blocks == {"x", "y"}
FileContents == UNION {[1..n -> Blocks] : n \in 0..MaxFileBlocks}

Exists(fsys, path) == path \in DOMAIN fsys

WriteFile(fsys, path, content) ==
    [q \in DOMAIN fsys \cup {path} |-> IF q = path THEN content ELSE fsys[q]]

RemoveFile(fsys, path) == [q \in DOMAIN fsys \ {path} |-> fsys[q]]

\* f.read(n) on a file opened at its start: the first n blocks, or all of it.
ReadPrefix(content, n) ==
    SubSeq(content, 1, IF Len(content) < n THEN Len(content) ELSE n)

\* --------------------------------------------------------------- the digest
\* hashlib.md5 over the bytes fed to it, taken to be injective.
Md5(bytes) == <<"md5", bytes>>

\* The digest without the file size: a mutant of CalculateFileHash.
CalculateFileHash_NoSize(fsys, file_path, ts) ==
    IF Exists(fsys, file_path)
    THEN Md5(<<"file", 0, ReadPrefix(fsys[file_path], HashPrefixBlocks)>>)
    ELSE Md5(<<"now", ts, <<>>>>)

\* The digest over the whole content: a mutant of CalculateFileHash.
CalculateFileHash_Whole(fsys, file_path, ts) ==
    IF Exists(fsys, file_path)
    THEN Md5(<<"file", Len(fsys[file_path]), fsys[file_path]>>)
    ELSE Md5(<<"now", ts, <<>>>>)

\* _calculate_file_hash: md5(str(size) + first MiB); when the path cannot be
\* sized or read (it is a URL, the file is gone) the except branch returns
\* md5(str(datetime.now().timestamp())), here the ts-th reading of the clock.
CalculateFileHash(fsys, file_path, ts) ==
    IF Exists(fsys, file_path)
    THEN Md5(<<"file", Len(fsys[file_path]),
               ReadPrefix(fsys[file_path], HashPrefixBlocks)>>)
    ELSE Md5(<<"now", ts, <<>>>>)

\* Whether _calculate_file_hash takes its except branch, reading the clock.
HashReadsClock(fsys, file_path) == ~Exists(fsys, file_path)

ClockAfterHash(fsys, file_path, ts) ==
    IF HashReadsClock(fsys, file_path) THEN ts + 1 ELSE ts

\* ------------------------------------------------------- checkpoint records
\* checkpoint_id = f"{job_id}_{stage}"
CheckpointId(job_id, stage) == job_id \o "_" \o stage

\* os.path.join(self.checkpoint_dir, f"{checkpoint_id}.json"), inside the directory
CheckpointPath(checkpoint_id) == checkpoint_id \o ".json"

\* The text of a checkpoint file.  json.dumps of a dict of strings, numbers, lists
\* and dicts is a text json.loads turns back into an equal dict; the other texts
\* are what a failed write or outside damage leaves.
JsonDumps(obj) == [kind |-> "json", obj |-> obj]
EmptyText == [kind |-> "empty"]
PartialText == [kind |-> "partial"]
NonDictText == [kind |-> "nondict"]
DamagedTexts == {EmptyText, PartialText, NonDictText}

\* json.loads(text) then checkpoint.get(...): succeeds on the text of a dict only.
\* An empty or cut text raises JSONDecodeError; a text that is JSON but no dict
\* raises AttributeError at .get.
Parses(text) == text.kind = "json"
JsonLoads(text) == text.obj

\* What a store call hands back: None, or a value.
None == [hit |-> FALSE]
Some(v) == [hit |-> TRUE, data |-> v]

\* The outcome of a call: it returned value, or it raised.
Returned(v) == [raised |-> FALSE, value |-> v]
Raised == [raised |-> TRUE, value |-> None]

\* ------------------------------------------------------------ save_checkpoint
\* What can go wrong inside save_checkpoint's try block:
\*   "open"   aiofiles.open(path, "w") raises: the directory entry is untouched;
\*   "dumps"  json.dumps raises after open("w") has truncated the file;
\*   "write"  f.write raises part of the way through.
SaveFaults == {"none", "open", "dumps", "write"}

CheckpointRecord(job_id, file_path, file_hash, stage, data) ==
    [job_id |-> job_id, file_path |-> file_path, file_hash |-> file_hash,
     stage |-> stage, data |-> data]

\* The checkpoint directory after save_checkpoint (lines 46-67) under a given fault.
SaveStore(st, fsys, ts, job_id, file_path, stage, data, fault) ==
    LET name == CheckpointPath(CheckpointId(job_id, stage))
        checkpoint == CheckpointRecord(job_id, file_path,
                          CalculateFileHash(fsys, file_path, ts), stage, data)
    IN  CASE fault = "none"  -> WriteFile(st, name, JsonDumps(checkpoint))
          [] fault = "open"  -> st
          [] fault = "dumps" -> WriteFile(st, name, EmptyText)
          [] fault = "write" -> WriteFile(st, name, PartialText)

\* The except of save_checkpoint re-raising: a mutant of SaveOutcome.
SaveOutcome_Propagates(job_id, stage, fault) ==
    IF fault = "none" THEN Returned(Some(CheckpointId(job_id, stage))) ELSE Raised

\* What save_checkpoint returns: the checkpoint id, or None from its except
\* branch (lines 74-77), which absorbs every Exception.
SaveOutcome(job_id, stage, fault) ==
    IF fault = "none" THEN Returned(Some(CheckpointId(job_id, stage)))
    ELSE Returned(None)

\* ------------------------------------------------------------ load_checkpoint
\* load_checkpoint returning the data without comparing digests: a mutant of
\* LoadCheckpoint.
LoadCheckpoint_NoVerify(st, fsys, ts, job_id, file_path, stage) ==
    LET name == CheckpointPath(CheckpointId(job_id, stage))
    IN  IF ~Exists(st, name) THEN Returned(None)
        ELSE IF ~Parses(st[name]) THEN Returned(None)
        ELSE Returned(Some(JsonLoads(st[name]).data))

\* load_checkpoint without its except branch: a mutant of LoadCheckpoint.
LoadCheckpoint_NoExcept(st, fsys, ts, job_id, file_path, stage) ==
    LET name == CheckpointPath(CheckpointId(job_id, stage))
    IN  IF ~Exists(st, name) THEN Returned(None)
        ELSE IF ~Parses(st[name]) THEN Raised
        ELSE IF JsonLoads(st[name]).file_hash
                    # CalculateFileHash(fsys, file_path, ts)
             THEN Returned(None)
             ELSE Returned(Some(JsonLoads(st[name]).data))

\* load_checkpoint (lines 93-124): None when the file is missing, when reading or
\* parsing it raises (the except branch), or when the stored digest differs from
\* the digest of file_path now; the stored data otherwise.
LoadCheckpoint(st, fsys, ts, job_id, file_path, stage) ==
    LET name == CheckpointPath(CheckpointId(job_id, stage))
    IN  IF ~Exists(st, name) THEN Returned(None)
        ELSE IF ~Parses(st[name]) THEN Returned(None)
        ELSE IF JsonLoads(st[name]).file_hash
                    # CalculateFileHash(fsys, file_path, ts)
             THEN Returned(None)
             ELSE Returned(Some(JsonLoads(st[name]).data))

\* load_checkpoint computes the digest only when the record exists and parses.
LoadReadsClock(st, fsys, job_id, file_path, stage) ==
    LET name == CheckpointPath(CheckpointId(job_id, stage))
    IN  /\ Exists(st, name)
        /\ Parses(st[name])
        /\ HashReadsClock(fsys, file_path)

\* ------------------------------------------------------------ the pipeline
\* The one job id the pipeline is run under.
Job == "j1"

\* The stages of the specification, in order, and the checkpoint stage names
\* main.py and media_service.py use for them.
StageNames == {"fetch", "extract_audio", "transcribe", "synthesize", "finalize"}
StageIndex(s) ==
    CASE s = "fetch" -> 1 [] s = "extract_audio" -> 2 [] s = "transcribe" -> 3
      [] s = "synthesize" -> 4 [] s = "finalize" -> 5

\* No chunked call.
NoChunkCall == [service |-> "none", n |-> 0]

\* None for a path or a string field.
NoPath == ""

NoLocals == [entry |-> "file", url |-> NoPath, file_path |-> NoPath,
             audio_path |-> NoPath,
             transcription |-> [text |-> <<>>, language |-> ""],
             markdown |-> <<>>]

NoHistory == [kind |-> "none", crashAfter |-> "none", faults |-> 0,
              saveFaulted |-> FALSE, engineFailed |-> FALSE, failed |-> FALSE,
              restored |-> {}, attempted |-> {},
              hits |-> {}, failedAt |-> "none", retryOf |-> "none",
              completeAtStart |-> FALSE,
              cancelled |-> FALSE, cancelledAt |-> "none", diskFault |-> FALSE]

\* ------------------------------------------------------ SpecStore: the inputs
StoreJobs == {"j1", "j2"}
StoreStages == {"extract_audio", "download_media"}
InputFile == "in.mp4"
OtherFile == "copy.mp4"
InputUrl == "https://host/v"
StoreInputs == {InputFile, OtherFile, InputUrl}
\* save is called with a job's own input (j1 was given a file, j2 a URL); load is
\* presented any of the inputs under any job id
JobInput(job_id) == IF job_id = "j1" THEN InputFile ELSE InputUrl
\* and for the stage that consumes that input
JobStage(job_id) == IF job_id = "j1" THEN "extract_audio" ELSE "download_media"
StorePayloads == {[path |-> "out_1"], [path |-> "out_2"]}
StoreNames == {CheckpointPath(CheckpointId(j, s)) : j \in StoreJobs, s \in StoreStages}

NoCall == [op |-> "none", job_id |-> "", file_path |-> "", stage |-> "",
           raised |-> FALSE, value |-> None]

Call(op, job_id, file_path, stage, outcome) ==
    [op |-> op, job_id |-> job_id, file_path |-> file_path, stage |-> stage,
     raised |-> outcome.raised, value |-> outcome.value]

Forget(h, name) == [n \in DOMAIN h \ {name} |-> h[n]]

\* The two uploaded files: the same size, the same first MiB, another second MiB.
InitialFiles ==
    [p \in {InputFile, OtherFile} |-> IF p = InputFile THEN <<"x", "x">> ELSE <<"x", "y">>]

\* await checkpoint_service.save_checkpoint(job_id, file_path, stage, data)
StoreSave(job_id, file_path, stage, data, fault) ==
    LET name == CheckpointPath(CheckpointId(job_id, stage))
    IN  /\ HashReadsClock(fs, file_path) => tsCalls < MaxTs
        /\ store' = SaveStore(store, fs, tsCalls, job_id, file_path, stage, data, fault)
        /\ tsCalls' = ClockAfterHash(fs, file_path, tsCalls)
        /\ ret' = NoCall
        /\ saved' = IF fault = "none"
                    THEN [n \in DOMAIN saved \cup {name} |->
                            IF n = name
                            THEN [file_path |-> file_path, data |-> data,
                                  isFile |-> Exists(fs, file_path),
                                  content |-> IF Exists(fs, file_path)
                                              THEN fs[file_path] ELSE <<>>]
                            ELSE saved[n]]
                    ELSE IF fault = "open" THEN saved ELSE Forget(saved, name)
        /\ UNCHANGED <<fs, concVars, pipeVars, chunkVars>>

\* await checkpoint_service.load_checkpoint(job_id, file_path, stage)
StoreLoad(job_id, file_path, stage) ==
    /\ LoadReadsClock(store, fs, job_id, file_path, stage) => tsCalls < MaxTs
    /\ ret' = Call("load", job_id, file_path, stage,
                   LoadCheckpoint(store, fs, tsCalls, job_id, file_path, stage))
    /\ tsCalls' = IF LoadReadsClock(store, fs, job_id, file_path, stage)
                  THEN tsCalls + 1 ELSE tsCalls
    /\ UNCHANGED <<fs, store, saved, concVars, pipeVars, chunkVars>>

\* The environment replaces the input artifact by another file.
EnvReplaceInput(content) ==
    /\ fs' = WriteFile(fs, InputFile, content)
    /\ ret' = NoCall
    /\ UNCHANGED <<store, tsCalls, saved, concVars, pipeVars, chunkVars>>

\* The environment removes the input artifact.
EnvRemoveInput ==
    /\ Exists(fs, InputFile)
    /\ fs' = RemoveFile(fs, InputFile)
    /\ ret' = NoCall
    /\ UNCHANGED <<store, tsCalls, saved, concVars, pipeVars, chunkVars>>

\* A record is cut, emptied or overwritten with other JSON from outside.
EnvDamageRecord(name, text) ==
    /\ Exists(store, name)
    /\ store' = WriteFile(store, name, text)
    /\ saved' = Forget(saved, name)
    /\ ret' = NoCall
    /\ UNCHANGED <<fs, tsCalls, concVars, pipeVars, chunkVars>>

NextStore ==
    \/ \E j \in StoreJobs, d \in StorePayloads, f \in SaveFaults :
          StoreSave(j, JobInput(j), JobStage(j), d, f)
    \/ \E j \in StoreJobs, p \in StoreInputs, s \in StoreStages : StoreLoad(j, p, s)
    \/ \E c \in FileContents : EnvReplaceInput(c)
    \/ EnvRemoveInput
    \/ \E n \in StoreNames, t \in DamagedTexts : EnvDamageRecord(n, t)


\* ------------------------------------- SpecConc: the handlers at await points
\* The process holds two CheckpointService objects, each with its own
\* asyncio.Lock over the same directory: main.py's checkpoint_service and
\* MediaService.checkpoint_service.
Instances == {"main", "media"}
Free == "free"

\* Two coroutines of the event loop, each the run of one job.
Tasks == {"t1", "t2"}
TaskJob(t) == IF t = "t1" THEN "j1" ELSE "j2"
TaskInput(t) == IF t = "t1" THEN InputFile ELSE OtherFile

\* The calls the pipeline makes on the store for a file job up to transcription,
\* with the instance each goes through.
ConcCallSites ==
    { [op |-> "load", stage |-> "extract_audio", inst |-> "main"],
      [op |-> "save", stage |-> "extract_audio", inst |-> "media"],
      [op |-> "load", stage |-> "transcription", inst |-> "main"],
      [op |-> "save", stage |-> "transcription", inst |-> "main"] }

Idle == [pc |-> "idle", inst |-> "main", stage |-> "", data |-> [path |-> ""],
         hash |-> <<>>, text |-> EmptyText]

TaskName(t) == CheckpointPath(CheckpointId(TaskJob(t), task[t].stage))

\* The process has just started: an empty checkpoint directory, no call in flight,
\* no job.
InitStore ==
    /\ fs = InitialFiles
    /\ store = <<>>
    /\ tsCalls = 0
    /\ ret = NoCall
    /\ saved = <<>>
    /\ lock = [i \in Instances |-> Free]
    /\ task = [t \in Tasks |-> Idle]
    /\ job_statuses = <<>>
    /\ pc = "none"
    /\ loc = NoLocals
    /\ run = 0
    /\ invoked = [s \in StageNames |-> 0]
    /\ hist = NoHistory
    /\ ck = NoChunkCall
    /\ cpc = "none"
    /\ wpc = <<>>
    /\ sem = 0
    /\ finished = <<>>
    /\ chunkFiles = {}
    /\ merged = <<>>

\* `async with self._lock:` of save_checkpoint or load_checkpoint: the task enters
\* when this instance's lock is free.
ConcAcquire(t, site) ==
    /\ task[t].pc = "idle"
    /\ lock[site.inst] = Free
    /\ lock' = [lock EXCEPT ![site.inst] = t]
    /\ task' = [task EXCEPT ![t] =
                  [Idle EXCEPT !.pc = IF site.op = "save" THEN "save_locked"
                                      ELSE "load_locked",
                               !.inst = site.inst, !.stage = site.stage,
                               !.data = [path |-> site.stage \o "_out"]]]
    /\ UNCHANGED <<storeVars, pipeVars, chunkVars>>

\* save_checkpoint line 50: file_hash = await self._calculate_file_hash(file_path)
ConcSaveHash(t) ==
    /\ task[t].pc = "save_locked"
    /\ task' = [task EXCEPT ![t].pc = "save_hashed",
                            ![t].hash = CalculateFileHash(fs, TaskInput(t), tsCalls)]
    /\ UNCHANGED <<storeVars, lock, pipeVars, chunkVars>>

\* save_checkpoint line 66: aiofiles.open(checkpoint_path, "w") creates the file or
\* cuts it to length zero.
ConcSaveOpen(t) ==
    /\ task[t].pc = "save_hashed"
    /\ store' = WriteFile(store, TaskName(t), EmptyText)
    /\ task' = [task EXCEPT ![t].pc = "save_opened"]
    /\ UNCHANGED <<fs, tsCalls, ret, saved, lock, pipeVars, chunkVars>>

\* save_checkpoint line 67: f.write(...), the part of the text that has reached
\* the file before the rest has.
ConcSaveWritePart(t) ==
    /\ task[t].pc = "save_opened"
    /\ store' = WriteFile(store, TaskName(t), PartialText)
    /\ task' = [task EXCEPT ![t].pc = "save_partial"]
    /\ UNCHANGED <<fs, tsCalls, ret, saved, lock, pipeVars, chunkVars>>

\* save_checkpoint lines 67-72: the whole text is in the file, the file is closed,
\* the lock released and the checkpoint id returned.
ConcSaveFinish(t) ==
    /\ task[t].pc \in {"save_opened", "save_partial"}
    /\ store' = WriteFile(store, TaskName(t),
                    JsonDumps(CheckpointRecord(TaskJob(t), TaskInput(t), task[t].hash,
                                               task[t].stage, task[t].data)))
    /\ saved' = [n \in DOMAIN saved \cup {TaskName(t)} |->
                    IF n = TaskName(t)
                    THEN [file_path |-> TaskInput(t), data |-> task[t].data,
                          isFile |-> Exists(fs, TaskInput(t)),
                          content |-> IF Exists(fs, TaskInput(t))
                                      THEN fs[TaskInput(t)] ELSE <<>>]
                    ELSE saved[n]]
    /\ lock' = [lock EXCEPT ![task[t].inst] = Free]
    /\ task' = [task EXCEPT ![t] = Idle]
    /\ UNCHANGED <<fs, tsCalls, ret, pipeVars, chunkVars>>

\* save_checkpoint lines 74-77: open, json.dumps or write raised; the except
\* branch logs, the lock is released and None returned.  The file stays as it is.
ConcSaveFail(t) ==
    /\ task[t].pc \in {"save_hashed", "save_opened", "save_partial"}
    /\ lock' = [lock EXCEPT ![task[t].inst] = Free]
    /\ task' = [task EXCEPT ![t] = Idle]
    /\ UNCHANGED <<storeVars, pipeVars, chunkVars>>

\* load_checkpoint lines 102-107: the existence test and the read of the file.
ConcLoadRead(t) ==
    /\ task[t].pc = "load_locked"
    /\ IF Exists(store, TaskName(t))
       THEN /\ task' = [task EXCEPT ![t].pc = "load_read",
                                    ![t].text = store[TaskName(t)]]
            /\ UNCHANGED lock
       ELSE /\ task' = [task EXCEPT ![t] = Idle]
            /\ lock' = [lock EXCEPT ![task[t].inst] = Free]
    /\ UNCHANGED <<storeVars, pipeVars, chunkVars>>

\* load_checkpoint lines 107-124: parse, compare digests, release the lock, return.
ConcLoadReturn(t) ==
    /\ task[t].pc = "load_read"
    /\ lock' = [lock EXCEPT ![task[t].inst] = Free]
    /\ task' = [task EXCEPT ![t] = Idle]
    /\ UNCHANGED <<storeVars, pipeVars, chunkVars>>

\* The process dies and is started again: coroutines and locks are gone, the
\* files stay as they are.
Crash ==
    /\ \E t \in Tasks : task[t].pc # "idle"
    /\ lock' = [i \in Instances |-> Free]
    /\ task' = [t \in Tasks |-> Idle]
    /\ UNCHANGED <<storeVars, pipeVars, chunkVars>>

NextConc ==
    \/ \E t \in Tasks, site \in ConcCallSites : ConcAcquire(t, site)
    \/ \E t \in Tasks : ConcSaveHash(t)
    \/ \E t \in Tasks : ConcSaveOpen(t)
    \/ \E t \in Tasks : ConcSaveWritePart(t)
    \/ \E t \in Tasks : ConcSaveFinish(t)
    \/ \E t \in Tasks : ConcSaveFail(t)
    \/ \E t \in Tasks : ConcLoadRead(t)
    \/ \E t \in Tasks : ConcLoadReturn(t)
    \/ Crash

SpecStore == InitStore /\ [][NextStore]_vars

SpecConc == InitStore /\ [][NextConc]_vars

\* ------------------------------------------------- Spec: paths and engines
\* The inputs a job is submitted with: an uploaded video, an uploaded audio file
\* that is not 16 kHz mono PCM, one that is, a page URL (fetched with yt-dlp) and
\* a direct media URL (fetched with aiohttp).
InputKinds == {"video", "audio", "audio16k", "url_page", "url_media"}
PageUrl == "https://host/v"
MediaUrl == "https://host/v.mp4"

\* media_service.py line 419
AudioExtensions == {".mp3", ".wav", ".ogg", ".flac", ".m4a", ".aac"}
Extensions == AudioExtensions \cup {".mp4", ".md"}

Digits == <<"1", "2", "3", "4", "5", "6", "7", "8", "9">>

\* tempfile.NamedTemporaryFile(dir=self.temp_dir): a name not used before; the n-th
\* run's.
TempStem(n) == "tmp" \o Digits[n]
Stems == {"in", "in16k", "in_optimized"}
            \cup {TempStem(n) : n \in 1..MaxRuns}
            \cup {TempStem(n) \o "_optimized" : n \in 1..MaxRuns}

\* os.path.splitext(path): <<root, ext>>
SplitExt(path) ==
    CHOOSE pair \in Stems \X Extensions : pair[1] \o pair[2] = path

\* temp_storage.save_text: f"{prefix}_{uuid.uuid4()}{suffix}", the n-th run's.
ResultPath(job_id, n) == job_id \o "_" \o "r" \o Digits[n] \o ".md"

\* What the client uploaded or named.
UploadPath(kind) ==
    CASE kind = "video" -> "in.mp4"
      [] kind = "audio" -> "in.mp3"
      [] kind = "audio16k" -> "in16k.wav"
      [] OTHER -> NoPath
UrlOf(kind) ==
    CASE kind = "url_page" -> PageUrl
      [] kind = "url_media" -> MediaUrl
      [] OTHER -> NoPath

\* A media file: its container and codec in the first block, its signal after.
UploadContent(kind) ==
    CASE kind = "video" -> <<"mp4", "x", "x">>
      [] kind = "audio" -> <<"mp3", "x", "y">>
      [] kind = "audio16k" -> <<"pcm16k", "y", "x">>
      [] OTHER -> <<>>

\* url_utils.is_media_url: the URL's path ends in a media extension.
IsMediaUrl(url) == url = MediaUrl

\* url_utils.is_youtube_url
IsYoutubeUrl(url) == FALSE

\* download_media lines 94-115: yt-dlp leaves <temp root>.wav, extracted audio;
\* aiohttp leaves <temp root><extension of the URL>.
DownloadPath(url, n) ==
    IF IsYoutubeUrl(url) \/ ~IsMediaUrl(url)
    THEN TempStem(n) \o ".wav"
    ELSE TempStem(n) \o ".mp4"
DownloadContent(url) ==
    IF IsYoutubeUrl(url) \/ ~IsMediaUrl(url)
    THEN <<"wav44k", "y", "y">>
    ELSE <<"mp4", "y">>

\* _is_audio_file: by extension, else by ffprobe's stream list.
IsAudioFile(fsys, path) ==
    \/ SplitExt(path)[2] \in AudioExtensions
    \/ Exists(fsys, path) /\ Head(fsys[path]) \in {"mp3", "wav44k", "pcm16k"}

\* _check_audio_format: pcm_s16le, 16000 Hz, one channel.
CheckAudioFormat(fsys, path) == Exists(fsys, path) /\ Head(fsys[path]) = "pcm16k"

\* extract_audio line 296 and _optimize_audio_format line 363
ExtractOutputPath(file_path) == SplitExt(file_path)[1] \o ".wav"
OptimizeOutputPath(file_path) == SplitExt(file_path)[1] \o "_optimized.wav"

\* The engines, as functions of what they read: ffmpeg re-encodes the signal as
\* 16 kHz mono PCM, the transcriber writes down the signal, the summarizer
\* structures the text.
FfmpegOutput(content) == <<"pcm16k">> \o Tail(content)
Transcribe(content) == [text |-> <<"txt">> \o Tail(content), language |-> "en"]
Summarize(transcription) == <<"md">> \o Tail(transcription.text)

\* temp_storage.delete_file: removes the file when it exists.
DeleteFile(fsys, path) == IF Exists(fsys, path) THEN RemoveFile(fsys, path) ELSE fsys

\* process_file lines 92-98 and process_url lines 127-133: the registry entry of
\* a job just submitted.  file_path is NoPath while the entry has no such key.
QueuedEntry(file_path) ==
    [status |-> "queued", progress |-> 0, message |-> "Job queued",
     file_path |-> file_path, result_path |-> NoPath]

\* Progress is kept in tenths: 1 is 0.1, 10 is 1.0.
\* main.py lines 232-234, the head of process_media_file.
\* The head of process_media_file starting the progress over: a mutant of EnterFile.
EnterFile_FromZero(js) ==
    [js EXCEPT ![Job].status = "processing", ![Job].progress = 0,
               ![Job].message = "Analyzing media file..."]

EnterFile(js) ==
    [js EXCEPT ![Job].status = "processing", ![Job].progress = 1,
               ![Job].message = "Analyzing media file..."]

\* The restore marking the job complete without its result: a mutant of
\* RestoreComplete.
RestoreComplete_NoResult(js, result_path) ==
    [js EXCEPT ![Job].status = "complete", ![Job].progress = 10,
               ![Job].message = "Processing complete (restored from checkpoint)"]

\* main.py lines 245-250 and 353-358: the job restored from its complete checkpoint.
RestoreComplete(js, result_path) ==
    [js EXCEPT ![Job].result_path = result_path, ![Job].status = "complete",
               ![Job].progress = 10,
               ![Job].message = "Processing complete (restored from checkpoint)"]

\* main.py lines 331-334 and 386-389: the except branch marks the job.
\* The except branch also putting the progress back to zero: a mutant of MarkError.
MarkError_ResetsProgress(js, e) ==
    [js EXCEPT ![Job].status = "error", ![Job].message = "Error: " \o e,
               ![Job].progress = 0]

\* The except branch leaving the entry as it was: a mutant of MarkError.
MarkError_Silent(js, e) == js

\* The except branch marking every job of the registry: a mutant of MarkError.
MarkError_EveryJob(js, e) ==
    [j \in DOMAIN js |-> [js[j] EXCEPT !.status = "error", !.message = "Error: " \o e]]

MarkError(js, e) ==
    [js EXCEPT ![Job].status = "error", ![Job].message = "Error: " \o e]

\* main.py lines 336-338 and 391-393: the except branch deletes the input file when
\* the entry has a "file_path" key.
\* The except branch leaving the input file in place: a mutant of CleanupInput.
CleanupInput_Keeps(js, fsys) == fsys

CleanupInput(js, fsys) ==
    IF js[Job].file_path # NoPath THEN DeleteFile(fsys, js[Job].file_path) ELSE fsys

\* Stage S of the current run is behind the job: its output was restored or its
\* engine ran.
Restore(h, stage) ==
    [h EXCEPT !.restored = @ \cup {stage}, !.hits = @ \cup {stage}]
\* load_checkpoint returned a payload for the stage, or None.
Seen(h, stage, hit) == IF hit THEN [h EXCEPT !.hits = @ \cup {stage}] ELSE h
Attempt(h, code_stage, fault) ==
    [h EXCEPT !.attempted = @ \cup {CheckpointId(Job, code_stage)},
              !.saveFaulted = @ \/ fault # "none",
              !.faults = IF fault # "none" THEN @ + 1 ELSE @]
Count(inv, stage) == [inv EXCEPT ![stage] = @ + 1]

\* The checkpoint directory and the clock after a load through either instance.
PipeLoad(path, code_stage) ==
    LoadCheckpoint(store, fs, tsCalls, Job, path, code_stage).value
ClockAfterLoad(path, code_stage) ==
    IF LoadReadsClock(store, fs, Job, path, code_stage) THEN tsCalls + 1 ELSE tsCalls

\* The locals of a task that has just been created for an input.
FreshLocals(kind) ==
    [NoLocals EXCEPT !.entry = IF UploadPath(kind) # NoPath THEN "file" ELSE "url",
                     !.url = UrlOf(kind),
                     !.file_path = UploadPath(kind)]

\* Another job of the same process, finished before this one was submitted: its
\* registry entry, its upload, its result and its complete checkpoint.
Other == "j2"
OtherUpload == "other.mp4"
OtherResult == "j2_r0.md"
OtherEntry ==
    [status |-> "complete", progress |-> 10, message |-> "Processing complete",
     file_path |-> OtherUpload, result_path |-> OtherResult]
OtherFiles ==
    [p \in {OtherUpload, OtherResult} |->
        IF p = OtherUpload THEN <<"mp4", "z">> ELSE <<"md", "z">>]
OtherStore ==
    SaveStore(<<>>, OtherFiles, 0, Other, OtherUpload, "complete",
              [result_path |-> OtherResult,
               transcription |-> [text |-> <<"txt", "z">>, language |-> "en"]],
              "none")

\* The files on disk when a job on an input of the given kind has been submitted.
InitialFs(kind) ==
    IF UploadPath(kind) # NoPath
    THEN WriteFile(OtherFiles, UploadPath(kind), UploadContent(kind))
    ELSE OtherFiles

\* The job's complete checkpoint is in the store, intact, and the result file it
\* names is on disk.
CompleteOnDisk(st, fsys) ==
    LET name == CheckpointPath(CheckpointId(Job, "complete"))
    IN  /\ Exists(st, name)
        /\ Parses(st[name])
        /\ Exists(fsys, JsonLoads(st[name]).data.result_path)

\* The history of a run that is about to start.
NewRun(h, st, fsys) ==
    [h EXCEPT !.failed = FALSE, !.restored = {}, !.attempted = {}, !.hits = {},
              !.failedAt = "none", !.retryOf = "none", !.crashAfter = "none",
              !.completeAtStart = CompleteOnDisk(st, fsys)]

\* A job has been submitted through /process/file or /process/url and its
\* background task is queued.
Init ==
    \E kind \in InputKinds :
        /\ fs = InitialFs(kind)
        /\ store = OtherStore
        /\ tsCalls = 0
        /\ ret = NoCall
        /\ saved = <<>>
        /\ lock = [i \in Instances |-> Free]
        /\ task = [t \in Tasks |-> Idle]
        /\ job_statuses = [j \in {Job, Other} |->
                              IF j = Job THEN QueuedEntry(UploadPath(kind))
                              ELSE OtherEntry]
        /\ pc = "queued"
        /\ loc = FreshLocals(kind)
        /\ run = 1
        /\ invoked = [s \in StageNames |-> 0]
        /\ hist = [NoHistory EXCEPT !.kind = kind]
        /\ ck = NoChunkCall
        /\ cpc = "none"
        /\ wpc = <<>>
        /\ sem = 0
        /\ finished = <<>>
        /\ chunkFiles = {}
        /\ merged = <<>>

frame == <<ret, saved, concVars, chunkVars>>

\* ------------------------------------------------- Spec: the background task
\* A progress write that would create the entry when it is missing: a mutant of
\* SetProgress.
SetProgress_Creates(js, tenths, message) ==
    [j \in DOMAIN js \cup {Job} |->
        IF j # Job THEN js[j]
        ELSE [(IF Job \in DOMAIN js THEN js[Job] ELSE QueuedEntry(NoPath))
                 EXCEPT !.progress = tenths, !.message = message]]

\* job_statuses[job_id]["progress"] = ...; job_statuses[job_id]["message"] = ...
SetProgress(js, tenths, message) ==
    [js EXCEPT ![Job].progress = tenths, ![Job].message = message]

\* job_statuses[job_id] raises KeyError: cancel_job has deleted the entry.
Gone(js) == Job \notin DOMAIN js

\* Where the task is after an assignment to job_statuses[job_id][...]: at `next`,
\* or, when the entry is gone, out of the run with the KeyError, which the except
\* branch raises again at its own first assignment (lines 333, 388).
Written(js, next) == IF Gone(js) THEN "dead" ELSE next

\* str(e) of the ApplicationError of delete_file.
DeleteError == "Failed to delete file"

\* os.remove raises inside delete_file: the disk refuses removals in this run and
\* the file is there (a missing file is not removed, lines 103-108).
RemoveRaises(h, fsys, path) == h.diskFault /\ path # NoPath /\ Exists(fsys, path)

\* The except branch of process_media_file / process_media_url (lines 331-338,
\* 386-393), entered with the file system fsys.  When delete_file raises in it the
\* exception leaves the function; for a URL job it then passes through the except
\* branch of process_media_url, which marks the job with it and raises it again.
ToExcept(fsys, e) ==
    IF Gone(job_statuses)
    THEN /\ job_statuses' = job_statuses
         /\ fs' = fsys
         /\ pc' = "dead"
    ELSE IF RemoveRaises(hist, fsys, job_statuses[Job].file_path)
    THEN /\ job_statuses' = MarkError(job_statuses,
                                      IF loc.entry = "url" THEN DeleteError ELSE e)
         /\ fs' = fsys
         /\ pc' = "dead"
    ELSE /\ job_statuses' = MarkError(job_statuses, e)
         /\ fs' = CleanupInput(job_statuses, fsys)
         /\ pc' = "done"

\* An engine, a download or a write of the result failed in this run.
Failed(h, stage) ==
    [h EXCEPT !.failed = TRUE, !.engineFailed = TRUE, !.faults = @ + 1,
              !.failedAt = stage]

\* str(e) of the ApplicationError each stage raises.
DownloadError == "Failed to download media"
ExtractError == "Failed to extract audio: Failed to extract audio: FFmpeg error"
TranscribeError == "Failed to transcribe audio"
SummarizeError == "Failed to generate structured text"
SaveTextError == "Failed to save text"
SaveRaised == "checkpoint"

\* Whether one more failure may be injected.
MayFail(h) == h.faults < MaxFaults

\* The background task of a file job starts: lines 232-234, up to the first await.
StartFile ==
    /\ pc = "queued"
    /\ loc.entry = "file"
    /\ job_statuses' = EnterFile(job_statuses)
    /\ pc' = Written(job_statuses, "load_complete")
    /\ UNCHANGED <<fs, store, tsCalls, loc, run, invoked, hist, frame>>

\* The background task of a URL job starts: up to the await of line 345.
StartUrl ==
    /\ pc = "queued"
    /\ loc.entry = "url"
    /\ pc' = "u_load_complete"
    /\ UNCHANGED <<fs, store, tsCalls, job_statuses, loc, run, invoked, hist, frame>>

\* process_media_url lines 345-365.
UrlLoadComplete ==
    /\ pc = "u_load_complete"
    /\ LET cp == PipeLoad(loc.url, "complete")
       IN  IF cp.hit /\ Exists(fs, cp.data.result_path)
           THEN /\ job_statuses' = RestoreComplete(job_statuses, cp.data.result_path)
                /\ pc' = Written(job_statuses, "done")
                /\ hist' = Restore(hist, "finalize")
           ELSE /\ job_statuses' =
                       [job_statuses EXCEPT ![Job].status = "processing",
                                            ![Job].progress = 1,
                                            ![Job].message = "Downloading content..."]
                /\ pc' = Written(job_statuses, "u_load_download")
                /\ hist' = Seen(hist, "finalize", cp.hit)
    /\ tsCalls' = ClockAfterLoad(loc.url, "complete")
    /\ UNCHANGED <<fs, store, loc, run, invoked, frame>>

\* process_media_url line 380 and the head of process_media_file it then calls.
EnterWithFile(file_path) ==
    /\ job_statuses' = EnterFile([job_statuses EXCEPT ![Job].file_path = file_path])
    /\ loc' = [loc EXCEPT !.file_path = file_path]
    /\ pc' = Written(job_statuses, "load_complete")

\* process_media_url lines 368-378, up to download_media's own load.
UrlLoadDownload ==
    /\ pc = "u_load_download"
    /\ LET cp == PipeLoad(loc.url, "download_media")
       IN  IF cp.hit /\ Exists(fs, cp.data.file_path)
           THEN /\ EnterWithFile(cp.data.file_path)
                /\ hist' = Restore(hist, "fetch")
           ELSE /\ pc' = "dl_load"
                /\ hist' = Seen(hist, "fetch", cp.hit)
                /\ UNCHANGED <<job_statuses, loc>>
    /\ tsCalls' = ClockAfterLoad(loc.url, "download_media")
    /\ UNCHANGED <<fs, store, run, invoked, frame>>

\* download_media lines 83-92: the media service asks its own store.
DownloadEnter ==
    /\ pc = "dl_load"
    /\ LET cp == PipeLoad(loc.url, "download_media")
       IN  IF cp.hit /\ Exists(fs, cp.data.file_path)
           THEN /\ EnterWithFile(cp.data.file_path)
                /\ hist' = Restore(hist, "fetch")
           ELSE /\ pc' = "download"
                /\ hist' = Seen(hist, "fetch", cp.hit)
                /\ UNCHANGED <<job_statuses, loc>>
    /\ tsCalls' = ClockAfterLoad(loc.url, "download_media")
    /\ UNCHANGED <<fs, store, run, invoked, frame>>

\* download_media lines 94-96 / 105-107: yt-dlp or aiohttp runs; a failure is
\* re-raised as ApplicationError (117-119) into process_media_url's except.
Download(ok) ==
    /\ pc = "download"
    /\ ~ok => MayFail(hist)
    /\ invoked' = Count(invoked, "fetch")
    /\ IF ok
       THEN /\ fs' = WriteFile(fs, DownloadPath(loc.url, run), DownloadContent(loc.url))
            /\ loc' = [loc EXCEPT !.file_path = DownloadPath(loc.url, run)]
            /\ pc' = "dl_save"
            /\ UNCHANGED <<job_statuses, hist>>
       ELSE /\ ToExcept(fs, DownloadError)
            /\ hist' = Failed(hist, "fetch")
            /\ loc' = loc
    /\ UNCHANGED <<store, tsCalls, run, frame>>

\* download_media lines 98-104 / 109-115, then process_media_url line 380.
DownloadSave(fault) ==
    /\ pc = "dl_save"
    /\ fault # "none" => MayFail(hist)
    /\ store' = SaveStore(store, fs, tsCalls, Job, loc.url, "download_media",
                          [file_path |-> loc.file_path], fault)
    /\ tsCalls' = ClockAfterHash(fs, loc.url, tsCalls)
    /\ hist' = Attempt(hist, "download_media", fault)
    /\ IF SaveOutcome(Job, "download_media", fault).raised
       THEN /\ ToExcept(fs, SaveRaised)
            /\ loc' = loc
       ELSE /\ EnterWithFile(loc.file_path)
            /\ fs' = fs
    /\ UNCHANGED <<run, invoked, frame>>

\* process_media_file lines 237-256.
LoadComplete ==
    /\ pc = "load_complete"
    /\ LET cp == PipeLoad(loc.file_path, "complete")
       IN  IF cp.hit /\ Exists(fs, cp.data.result_path)
           THEN /\ job_statuses' = RestoreComplete(job_statuses, cp.data.result_path)
                /\ pc' = Written(job_statuses, "done")
                /\ hist' = Restore(hist, "finalize")
           ELSE /\ job_statuses' = SetProgress(job_statuses, 2, "Extracting audio...")
                /\ pc' = Written(job_statuses, "load_extract")
                /\ hist' = Seen(hist, "finalize", cp.hit)
    /\ tsCalls' = ClockAfterLoad(loc.file_path, "complete")
    /\ UNCHANGED <<fs, store, loc, run, invoked, frame>>

\* process_media_file lines 269-270, with the audio path the stage handed back.
AudioReady(audio_path) ==
    /\ loc' = [loc EXCEPT !.audio_path = audio_path]
    /\ job_statuses' = SetProgress(job_statuses, 3, "Transcribing audio...")
    /\ pc' = Written(job_statuses, "load_transcription")

\* process_media_file lines 259-267, up to the first await of extract_audio.
LoadExtract ==
    /\ pc = "load_extract"
    /\ LET cp == PipeLoad(loc.file_path, "extract_audio")
       IN  IF cp.hit /\ Exists(fs, cp.data.audio_path)
           THEN /\ AudioReady(cp.data.audio_path)
                /\ hist' = Restore(hist, "extract_audio")
           ELSE /\ pc' = "ea_enter"
                /\ hist' = Seen(hist, "extract_audio", cp.hit)
                /\ UNCHANGED <<job_statuses, loc>>
    /\ tsCalls' = ClockAfterLoad(loc.file_path, "extract_audio")
    /\ UNCHANGED <<fs, store, run, invoked, frame>>

\* extract_audio lines 277-293 and _optimize_audio_format lines 357-360: an audio
\* file goes to the optimizer, which hands back a file already 16 kHz mono PCM;
\* any other file is looked up in the media service's store.
ExtractEnter ==
    /\ pc = "ea_enter"
    /\ IF IsAudioFile(fs, loc.file_path)
       THEN /\ IF CheckAudioFormat(fs, loc.file_path)
               THEN AudioReady(loc.file_path)
               ELSE /\ pc' = "opt_ffmpeg"
                    /\ UNCHANGED <<job_statuses, loc>>
            /\ UNCHANGED <<tsCalls, hist>>
       ELSE /\ LET cp == PipeLoad(loc.file_path, "extract_audio")
               IN  IF cp.hit /\ Exists(fs, cp.data.audio_path)
                   THEN /\ AudioReady(cp.data.audio_path)
                        /\ hist' = Restore(hist, "extract_audio")
                   ELSE /\ pc' = "ea_ffmpeg"
                        /\ hist' = Seen(hist, "extract_audio", cp.hit)
                        /\ UNCHANGED <<job_statuses, loc>>
            /\ tsCalls' = ClockAfterLoad(loc.file_path, "extract_audio")
    /\ UNCHANGED <<fs, store, run, invoked, frame>>

\* extract_audio lines 296-338: ffmpeg writes <root>.wav, or exits non-zero and
\* ApplicationError goes up to the caller's except.
ExtractFfmpeg(ok) ==
    /\ pc = "ea_ffmpeg"
    /\ ~ok => MayFail(hist) \/ ~Exists(fs, loc.file_path)
    /\ ok => Exists(fs, loc.file_path)
    /\ invoked' = Count(invoked, "extract_audio")
    /\ IF ok
       THEN /\ fs' = WriteFile(fs, ExtractOutputPath(loc.file_path),
                               FfmpegOutput(fs[loc.file_path]))
            /\ pc' = "ea_save"
            /\ UNCHANGED <<job_statuses, hist>>
       ELSE /\ ToExcept(fs, ExtractError)
            /\ hist' = Failed(hist, "extract_audio")
    /\ UNCHANGED <<store, tsCalls, loc, run, frame>>

\* extract_audio lines 341-347, then process_media_file lines 269-270.
ExtractSave(fault) ==
    /\ pc = "ea_save"
    /\ fault # "none" => MayFail(hist)
    /\ store' = SaveStore(store, fs, tsCalls, Job, loc.file_path, "extract_audio",
                          [audio_path |-> ExtractOutputPath(loc.file_path)], fault)
    /\ tsCalls' = ClockAfterHash(fs, loc.file_path, tsCalls)
    /\ hist' = Attempt(hist, "extract_audio", fault)
    /\ IF SaveOutcome(Job, "extract_audio", fault).raised
       THEN /\ ToExcept(fs, SaveRaised)
            /\ loc' = loc
       ELSE /\ AudioReady(ExtractOutputPath(loc.file_path))
            /\ fs' = fs
    /\ UNCHANGED <<run, invoked, frame>>

\* _optimize_audio_format lines 363-395: ffmpeg writes <root>_optimized.wav, or
\* exits non-zero and the original file is handed back.
OptimizeFfmpeg(ok) ==
    /\ pc = "opt_ffmpeg"
    /\ ~ok => MayFail(hist) \/ ~Exists(fs, loc.file_path)
    /\ ok => Exists(fs, loc.file_path)
    /\ invoked' = Count(invoked, "extract_audio")
    /\ IF ok
       THEN /\ fs' = WriteFile(fs, OptimizeOutputPath(loc.file_path),
                               FfmpegOutput(fs[loc.file_path]))
            /\ pc' = "opt_save"
            /\ UNCHANGED <<job_statuses, loc, hist>>
       ELSE /\ AudioReady(loc.file_path)
            /\ hist' = [hist EXCEPT !.engineFailed = TRUE, !.faults = @ + 1]
            /\ fs' = fs
    /\ UNCHANGED <<store, tsCalls, run, frame>>

\* _optimize_audio_format lines 398-409: the checkpoint goes under the stage name
\* "optimize_audio"; an exception here hands back the original file.
OptimizeSave(fault) ==
    /\ pc = "opt_save"
    /\ fault # "none" => MayFail(hist)
    /\ store' = SaveStore(store, fs, tsCalls, Job, loc.file_path, "optimize_audio",
                          [audio_path |-> OptimizeOutputPath(loc.file_path)], fault)
    /\ tsCalls' = ClockAfterHash(fs, loc.file_path, tsCalls)
    /\ hist' = Attempt(hist, "optimize_audio", fault)
    /\ IF SaveOutcome(Job, "optimize_audio", fault).raised
       THEN AudioReady(loc.file_path)
       ELSE AudioReady(OptimizeOutputPath(loc.file_path))
    /\ UNCHANGED <<fs, run, invoked, frame>>

\* process_media_file lines 273-281 and, on a hit, 287-288.
LoadTranscription ==
    /\ pc = "load_transcription"
    /\ LET cp == PipeLoad(loc.audio_path, "transcription")
       IN  IF cp.hit
           THEN /\ loc' = [loc EXCEPT !.transcription = cp.data]
                /\ job_statuses' =
                       SetProgress(job_statuses, 7, "Generating structured text...")
                /\ pc' = Written(job_statuses, "load_markdown")
                /\ hist' = Restore(hist, "transcribe")
           ELSE /\ pc' = "transcribe"
                /\ UNCHANGED <<job_statuses, loc, hist>>
    /\ tsCalls' = ClockAfterLoad(loc.audio_path, "transcription")
    /\ UNCHANGED <<fs, store, run, invoked, frame>>

\* process_media_file line 281: transcription_service.transcribe(audio_path).
TranscribeAudio(ok) ==
    /\ pc = "transcribe"
    /\ ~ok => MayFail(hist) \/ ~Exists(fs, loc.audio_path)
    /\ ok => Exists(fs, loc.audio_path)
    /\ invoked' = Count(invoked, "transcribe")
    /\ IF ok
       THEN /\ loc' = [loc EXCEPT !.transcription = Transcribe(fs[loc.audio_path])]
            /\ pc' = "save_transcription"
            /\ UNCHANGED <<fs, job_statuses, hist>>
       ELSE /\ ToExcept(fs, TranscribeError)
            /\ hist' = Failed(hist, "transcribe")
            /\ loc' = loc
    /\ UNCHANGED <<store, tsCalls, run, frame>>

\* process_media_file lines 283-288.
SaveTranscription(fault) ==
    /\ pc = "save_transcription"
    /\ fault # "none" => MayFail(hist)
    /\ store' = SaveStore(store, fs, tsCalls, Job, loc.audio_path, "transcription",
                          loc.transcription, fault)
    /\ tsCalls' = ClockAfterHash(fs, loc.audio_path, tsCalls)
    /\ hist' = Attempt(hist, "transcription", fault)
    /\ IF SaveOutcome(Job, "transcription", fault).raised
       THEN ToExcept(fs, SaveRaised)
       ELSE /\ job_statuses' =
                   SetProgress(job_statuses, 7, "Generating structured text...")
            /\ pc' = Written(job_statuses, "load_markdown")
            /\ fs' = fs
    /\ UNCHANGED <<loc, run, invoked, frame>>

\* process_media_file lines 291-299 and, on a hit, 305-306.
LoadMarkdown ==
    /\ pc = "load_markdown"
    /\ LET cp == PipeLoad(loc.audio_path, "markdown")
       IN  IF cp.hit /\ cp.data.markdown # <<>>
           THEN /\ loc' = [loc EXCEPT !.markdown = cp.data.markdown]
                /\ job_statuses' = SetProgress(job_statuses, 9, "Finalizing output...")
                /\ pc' = Written(job_statuses, "save_text")
                /\ hist' = Restore(hist, "synthesize")
           ELSE /\ pc' = "summarize"
                /\ hist' = Seen(hist, "synthesize", cp.hit)
                /\ UNCHANGED <<job_statuses, loc>>
    /\ tsCalls' = ClockAfterLoad(loc.audio_path, "markdown")
    /\ UNCHANGED <<fs, store, run, invoked, frame>>

\* process_media_file line 299: summarization_service.summarize(transcription).
SummarizeText(ok) ==
    /\ pc = "summarize"
    /\ ~ok => MayFail(hist)
    /\ invoked' = Count(invoked, "synthesize")
    /\ IF ok
       THEN /\ loc' = [loc EXCEPT !.markdown = Summarize(loc.transcription)]
            /\ pc' = "save_markdown"
            /\ UNCHANGED <<fs, job_statuses, hist>>
       ELSE /\ ToExcept(fs, SummarizeError)
            /\ hist' = Failed(hist, "synthesize")
            /\ loc' = loc
    /\ UNCHANGED <<store, tsCalls, run, frame>>

\* process_media_file lines 301-306.
SaveMarkdown(fault) ==
    /\ pc = "save_markdown"
    /\ fault # "none" => MayFail(hist)
    /\ store' = SaveStore(store, fs, tsCalls, Job, loc.audio_path, "markdown",
                          [markdown |-> loc.markdown], fault)
    /\ tsCalls' = ClockAfterHash(fs, loc.audio_path, tsCalls)
    /\ hist' = Attempt(hist, "markdown", fault)
    /\ IF SaveOutcome(Job, "markdown", fault).raised
       THEN ToExcept(fs, SaveRaised)
       ELSE /\ job_statuses' = SetProgress(job_statuses, 9, "Finalizing output...")
            /\ pc' = Written(job_statuses, "save_text")
            /\ fs' = fs
    /\ UNCHANGED <<loc, run, invoked, frame>>

\* process_media_file lines 309-312: temp_storage.save_text writes the document
\* to a fresh path, or raises.
SaveText(ok) ==
    /\ pc = "save_text"
    /\ ~ok => MayFail(hist)
    /\ invoked' = Count(invoked, "finalize")
    /\ IF ok
       THEN /\ fs' = WriteFile(fs, ResultPath(Job, run), loc.markdown)
            /\ job_statuses' =
                   [job_statuses EXCEPT ![Job].result_path = ResultPath(Job, run)]
            /\ pc' = Written(job_statuses, "save_complete")
            /\ hist' = hist
       ELSE /\ ToExcept(fs, SaveTextError)
            /\ hist' = Failed(hist, "finalize")
    /\ UNCHANGED <<store, tsCalls, loc, run, frame>>

\* process_media_file lines 315-325: the complete checkpoint and the final
\* status; the removal of the audio file the job made follows (CleanupAudio).
SaveComplete(fault) ==
    /\ pc = "save_complete"
    /\ fault # "none" => MayFail(hist)
    /\ store' = SaveStore(store, fs, tsCalls, Job, loc.file_path, "complete",
                          [result_path |-> ResultPath(Job, run),
                           transcription |-> loc.transcription], fault)
    /\ tsCalls' = ClockAfterHash(fs, loc.file_path, tsCalls)
    /\ hist' = Attempt(hist, "complete", fault)
    /\ IF SaveOutcome(Job, "complete", fault).raised
       THEN ToExcept(fs, SaveRaised)
       ELSE IF Gone(job_statuses)
       THEN ToExcept(fs, "KeyError")
       ELSE /\ job_statuses' =
                   [job_statuses EXCEPT ![Job].status = "complete",
                                        ![Job].progress = 10,
                                        ![Job].message = "Processing complete"]
            /\ fs' = fs
            /\ pc' = IF loc.audio_path # loc.file_path THEN "cleanup_audio" ELSE "done"
    /\ UNCHANGED <<loc, run, invoked, frame>>

\* process_media_file lines 327-329, after the job was marked complete: the
\* audio file the job made is removed. When the removal raises, the except
\* branch marks the job. delete_file does not suspend, so no other task runs
\* between the final status and this step.
CleanupAudio ==
    /\ pc = "cleanup_audio"
    /\ IF RemoveRaises(hist, fs, loc.audio_path)
       THEN ToExcept(fs, DeleteError)
       ELSE /\ fs' = DeleteFile(fs, loc.audio_path)
            /\ job_statuses' = job_statuses
            /\ pc' = "done"
    /\ UNCHANGED <<store, tsCalls, hist, loc, run, invoked, frame>>

\* The stage the task had just finished when it was at a given await.
StageBehind(at, entry, js) ==
    CASE at = "load_complete" /\ entry = "url" -> "fetch"
      [] at = "load_transcription" -> "extract_audio"
      [] at = "load_markdown" -> "transcribe"
      [] at = "save_text" -> "synthesize"
      [] at \in {"cleanup_audio", "done"}
            /\ Job \in DOMAIN js /\ js[Job].status = "complete" -> "finalize"
      [] OTHER -> "none"

\* The server process dies with the task at any await or after it: the registry
\* and the task are lost, the files and the checkpoint directory stay.
Interrupt ==
    /\ pc # "none"
    /\ run < MaxRuns
    /\ hist' = [hist EXCEPT !.crashAfter = StageBehind(pc, loc.entry, job_statuses)]
    /\ job_statuses' = <<>>
    /\ loc' = FreshLocals(hist.kind)
    /\ pc' = "none"
    /\ UNCHANGED <<fs, store, tsCalls, run, invoked, frame>>

\* The job is started again under the same job id on the same input, which is
\* still in place.
Resubmit ==
    /\ pc = "none"
    /\ run < MaxRuns
    /\ UploadPath(hist.kind) # NoPath => Exists(fs, UploadPath(hist.kind))
    /\ job_statuses' = [j \in {Job} |-> QueuedEntry(UploadPath(hist.kind))]
    /\ pc' = "queued"
    /\ run' = run + 1
    /\ invoked' = [s \in StageNames |-> 0]
    /\ hist' = [NewRun(hist, store, fs) EXCEPT !.crashAfter = hist.crashAfter]
    /\ UNCHANGED <<fs, store, tsCalls, loc, frame>>

\* After the job has ended in error the client submits it again under the same
\* job id and the same input reference: the registry entry is written anew
\* (lines 92-98, 127-133).  The upload the failed run deleted is either put back
\* at its path or not.
Retry(reupload) ==
    /\ pc = "done"
    /\ job_statuses[Job].status = "error"
    /\ run < MaxRuns
    /\ reupload => UploadPath(hist.kind) # NoPath
    /\ fs' = IF reupload
             THEN WriteFile(fs, UploadPath(hist.kind), UploadContent(hist.kind))
             ELSE fs
    /\ job_statuses' = [job_statuses EXCEPT ![Job] = QueuedEntry(UploadPath(hist.kind))]
    /\ pc' = "queued"
    /\ loc' = FreshLocals(hist.kind)
    /\ run' = run + 1
    /\ invoked' = [s \in StageNames |-> 0]
    /\ hist' = [NewRun(hist, store, fs') EXCEPT !.retryOf = hist.failedAt]
    /\ UNCHANGED <<store, tsCalls, frame>>

\* One step of the background task of the job.
RunStep ==
    \/ StartFile
    \/ StartUrl
    \/ UrlLoadComplete
    \/ UrlLoadDownload
    \/ DownloadEnter
    \/ \E ok \in BOOLEAN : Download(ok)
    \/ \E fault \in SaveFaults : DownloadSave(fault)
    \/ LoadComplete
    \/ LoadExtract
    \/ ExtractEnter
    \/ \E ok \in BOOLEAN : ExtractFfmpeg(ok)
    \/ \E fault \in SaveFaults : ExtractSave(fault)
    \/ \E ok \in BOOLEAN : OptimizeFfmpeg(ok)
    \/ \E fault \in SaveFaults : OptimizeSave(fault)
    \/ LoadTranscription
    \/ \E ok \in BOOLEAN : TranscribeAudio(ok)
    \/ \E fault \in SaveFaults : SaveTranscription(fault)
    \/ LoadMarkdown
    \/ \E ok \in BOOLEAN : SummarizeText(ok)
    \/ \E fault \in SaveFaults : SaveMarkdown(fault)
    \/ \E ok \in BOOLEAN : SaveText(ok)
    \/ \E fault \in SaveFaults : SaveComplete(fault)
    \/ CleanupAudio

Next ==
    \/ RunStep
    \/ Interrupt
    \/ Resubmit
    \/ \E reupload \in BOOLEAN : Retry(reupload)

Spec == Init /\ [][Next]_vars

\* ---------------------------------------------------------------------------
\* SpecCancel and SpecRun: one run of the job, on a disk that may refuse to
\* remove files, with and without a DELETE /job/{job_id} request arriving at
\* any await of the run.
\* ---------------------------------------------------------------------------

\* A job has been submitted and its background task is queued; the disk of this
\* run either removes files or makes every os.remove of an existing file raise.
InitRun ==
    \E kind \in InputKinds, diskFault \in BOOLEAN :
        /\ fs = InitialFs(kind)
        /\ store = OtherStore
        /\ tsCalls = 0
        /\ ret = NoCall
        /\ saved = <<>>
        /\ lock = [i \in Instances |-> Free]
        /\ task = [t \in Tasks |-> Idle]
        /\ job_statuses = [j \in {Job, Other} |->
                              IF j = Job THEN QueuedEntry(UploadPath(kind))
                              ELSE OtherEntry]
        /\ pc = "queued"
        /\ loc = FreshLocals(kind)
        /\ run = 1
        /\ invoked = [s \in StageNames |-> 0]
        /\ hist = [NoHistory EXCEPT !.kind = kind, !.diskFault = diskFault]
        /\ ck = NoChunkCall
        /\ cpc = "none"
        /\ wpc = <<>>
        /\ sem = 0
        /\ finished = <<>>
        /\ chunkFiles = {}
        /\ merged = <<>>

\* get_status (lines 154-167): 404 when the registry has no entry for the id;
\* result_url is "/download/{job_id}" for a complete job, else None ("" here).
get_status(js, job_id) ==
    IF job_id \notin DOMAIN js
    THEN [code |-> 404, status |-> "", progress |-> 0, message |-> "", result_url |-> ""]
    ELSE [code |-> 200, status |-> js[job_id].status, progress |-> js[job_id].progress,
          message |-> js[job_id].message,
          result_url |-> IF js[job_id].status = "complete"
                         THEN "/download/" \o job_id ELSE ""]

\* cancel_job (lines 200-217) returns: it deletes the file at the entry's
\* file_path and the one at its result_path, when set, then the entry.  Nothing
\* in it waits, so it runs between two steps of the task.  When delete_file
\* raises the request fails before anything was removed and the entry stays.
CancelJob ==
    /\ pc \notin {"none", "cleanup_audio"}
    /\ Job \in DOMAIN job_statuses
    /\ LET job == job_statuses[Job]
       IN  /\ ~RemoveRaises(hist, fs, job.file_path)
           /\ ~RemoveRaises(hist, fs, job.result_path)
           /\ fs' = LET afterInput == IF job.file_path # NoPath
                                      THEN DeleteFile(fs, job.file_path) ELSE fs
                    IN  IF job.result_path # NoPath
                        THEN DeleteFile(afterInput, job.result_path)
                        ELSE afterInput
    /\ job_statuses' = [j \in DOMAIN job_statuses \ {Job} |-> job_statuses[j]]
    /\ hist' = [hist EXCEPT !.cancelled = TRUE, !.cancelledAt = pc]
    /\ UNCHANGED <<store, tsCalls, pc, loc, run, invoked, frame>>

NextCancel ==
    \/ RunStep
    \/ CancelJob

SpecCancel == InitRun /\ [][NextCancel]_vars

\* The event loop resumes the task whenever what it awaits has returned or raised.
SpecRun == InitRun /\ [][RunStep]_vars /\ WF_vars(RunStep)

\* ------------------------------------------------- claims on the store alone
\* The checkpoint file a load that has just returned was looking for.
RetName == CheckpointPath(CheckpointId(ret.job_id, ret.stage))

\* The load that has just returned followed a save, still in place, under its key.
LoadAfterSave == ret.op = "load" /\ RetName \in DOMAIN saved

SameSizeAndPrefix(c1, c2) ==
    /\ Len(c1) = Len(c2)
    /\ ReadPrefix(c1, HashPrefixBlocks) = ReadPrefix(c2, HashPrefixBlocks)

\* C2: checkpoint round trip.  A load of (job, stage) presented the same file path
\* as the save that wrote the record, the file unchanged since, returns exactly the
\* saved payload; and a load returns a payload only when a parsable record exists
\* under (job, stage) whose stored digest is the digest of the file presented, and
\* then it is that record's payload.
C2_RoundTrip ==
    ret.op = "load" =>
        /\ ( /\ RetName \in DOMAIN saved
             /\ saved[RetName].isFile
             /\ saved[RetName].file_path = ret.file_path
             /\ Exists(fs, ret.file_path)
             /\ fs[ret.file_path] = saved[RetName].content )
           => (~ret.raised /\ ret.value = Some(saved[RetName].data))
        /\ ret.value.hit =>
             /\ Exists(store, RetName)
             /\ Parses(store[RetName])
             /\ Exists(fs, ret.file_path)
             /\ JsonLoads(store[RetName]).file_hash
                    = Md5(<<"file", Len(fs[ret.file_path]),
                            ReadPrefix(fs[ret.file_path], HashPrefixBlocks)>>)
             /\ ret.value.data = JsonLoads(store[RetName]).data

C2_Witness ==
    /\ LoadAfterSave
    /\ saved[RetName].isFile
    /\ saved[RetName].file_path = ret.file_path
    /\ Exists(fs, ret.file_path)
    /\ fs[ret.file_path] = saved[RetName].content
    /\ ret.value.hit
    /\ Cardinality(DOMAIN store) = 2

\* C3: digest sensitivity.  After a save for a file input, once the file at that
\* path has been replaced by one of another size or with another first MiB, a load
\* under the same job id and stage with that path returns None.
C3_DigestSensitivity ==
    ( /\ LoadAfterSave
      /\ saved[RetName].isFile
      /\ saved[RetName].file_path = ret.file_path
      /\ Exists(fs, ret.file_path)
      /\ ~SameSizeAndPrefix(fs[ret.file_path], saved[RetName].content) )
    => (~ret.raised /\ ret.value = None)

C3_Witness ==
    /\ LoadAfterSave
    /\ saved[RetName].isFile
    /\ saved[RetName].file_path = ret.file_path
    /\ Exists(fs, ret.file_path)
    /\ Len(fs[ret.file_path]) # Len(saved[RetName].content)
    /\ ReadPrefix(fs[ret.file_path], HashPrefixBlocks)
           = ReadPrefix(saved[RetName].content, HashPrefixBlocks)
    /\ ret.value = None

\* C4: corruption tolerance.  A load that finds the record empty, cut short or
\* otherwise not the text of a record returns None and does not raise.
C4_CorruptionTolerance ==
    (ret.op = "load" /\ Exists(store, RetName) /\ ~Parses(store[RetName]))
    => (~ret.raised /\ ret.value = None)

C4_Witness ==
    /\ ret.op = "load"
    /\ Exists(store, RetName)
    /\ store[RetName] = PartialText
    /\ ret.value = None

\* C5: URL digest, as claimed.  A load presented the same URL as the save that
\* wrote the record under its key, still in place, returns the saved payload.
C5_UrlRoundTrip ==
    ( /\ LoadAfterSave
      /\ ~saved[RetName].isFile
      /\ saved[RetName].file_path = InputUrl
      /\ ret.file_path = InputUrl )
    => ret.value = Some(saved[RetName].data)

\* C6: digest policy.  A load presented any file of the same size and the same
\* first MiB as the file the save hashed returns the saved payload, whatever the
\* rest of its content and whatever its path.
C6_DigestPolicy ==
    ( /\ LoadAfterSave
      /\ saved[RetName].isFile
      /\ Exists(fs, ret.file_path)
      /\ SameSizeAndPrefix(fs[ret.file_path], saved[RetName].content) )
    => ret.value = Some(saved[RetName].data)

C6_Witness ==
    /\ LoadAfterSave
    /\ saved[RetName].isFile
    /\ Exists(fs, ret.file_path)
    /\ ret.file_path # saved[RetName].file_path
    /\ fs[ret.file_path] # saved[RetName].content
    /\ SameSizeAndPrefix(fs[ret.file_path], saved[RetName].content)
    /\ ret.value = Some(saved[RetName].data)

\* --------------------------------------------------- claims on SpecConc
\* A task is inside a store operation from the moment it holds the lock of the
\* instance it called until it releases it.
InStoreOp(t) == task[t].pc # "idle"

\* C7: store mutual exclusion, as claimed.  No two store operations are in
\* progress on the checkpoint directory at the same time.
C7_StoreMutex == Cardinality({t \in Tasks : InStoreOp(t)}) <= 1

\* C8: atomic save, as claimed, at the instants where no store call is in flight
\* (after a save returned or raised, after a crash): every file of the directory
\* holds a complete record, and the record the last finished save wrote under a
\* key is still there.
C8_AtomicSave ==
    (\A t \in Tasks : task[t].pc = "idle") =>
        /\ \A n \in DOMAIN store : Parses(store[n])
        /\ \A n \in DOMAIN saved :
              /\ Exists(store, n)
              /\ Parses(store[n])
              /\ JsonLoads(store[n]).data = saved[n].data

\* ------------------------------------------------------- claims on Spec
\* The document an uninterrupted run without failures leaves for an input.
ExpectedDocument(kind) ==
    Summarize(Transcribe(FfmpegOutput(
        IF UploadPath(kind) # NoPath THEN UploadContent(kind)
        ELSE DownloadContent(UrlOf(kind)))))

HasEntry == Job \in DOMAIN job_statuses
StatusIs(status) == HasEntry /\ job_statuses[Job].status = status

\* The job's result path names a file holding the expected document.
ResultCorrect ==
    /\ HasEntry
    /\ Exists(fs, job_statuses[Job].result_path)
    /\ fs[job_statuses[Job].result_path] = ExpectedDocument(hist.kind)

\* The checkpoint stage name the code keys each stage of the specification by.
StageKey(s) ==
    CASE s = "fetch" -> "download_media"
      [] s = "extract_audio" -> "extract_audio"
      [] s = "transcribe" -> "transcription"
      [] s = "synthesize" -> "markdown"
      [] s = "finalize" -> "complete"

\* C1 (idempotent resume): when the previous run was interrupted right after
\* stage N and no save, engine or download has failed, the current run invokes no
\* engine of a stage up to N, and once it has ended the job is complete with the
\* document of an uninterrupted run.
C1_IdempotentResume ==
    (/\ run >= 2
     /\ hist.crashAfter \in StageNames
     /\ hist.faults = 0)
        => /\ \A s \in StageNames :
                 StageIndex(s) <= StageIndex(hist.crashAfter) => invoked[s] = 0
           /\ pc = "done" => StatusIs("complete") /\ ResultCorrect

\* C9 (save failure is non-fatal): a job is in status error only when an engine,
\* a download or the write of the result failed in this run, never because a
\* checkpoint save failed; and a job that is complete has the correct document,
\* whatever saves failed on the way.
C9_SaveFailureNonFatal ==
    /\ StatusIs("error") => hist.failed
    /\ StatusIs("complete") => ResultCorrect

\* A first run in which a checkpoint save failed and which ended complete with
\* the correct document.
C9_Witness ==
    /\ run = 1
    /\ pc = "done"
    /\ hist.saveFaulted
    /\ ~hist.failed
    /\ StatusIs("complete")
    /\ ResultCorrect

\* Stage S is behind the task: its output was restored from its checkpoint, or
\* the save of its checkpoint under (job id, S) has been attempted in this run.
StageSettled(s) ==
    \/ s \in hist.restored
    \/ CheckpointId(Job, StageKey(s)) \in hist.attempted

\* C10 (stage ordering): when the engine of a stage is about to run, the stage
\* before it has produced its output and the save of its checkpoint under
\* (job id, stage) has been attempted, or its output was restored.
C10_StageOrdering ==
    /\ (pc \in {"ea_ffmpeg", "opt_ffmpeg"} /\ loc.entry = "url") => StageSettled("fetch")
    /\ pc = "transcribe" => StageSettled("extract_audio")
    /\ pc = "summarize" => StageSettled("transcribe")
    /\ pc = "save_text" => StageSettled("synthesize")

\* The stages process_media_file runs behind a load of their checkpoint.
EngineStages == {"extract_audio", "transcribe", "synthesize"}

\* The progress, in tenths, the orchestrator writes when a stage is behind it.
StageProgress(s) ==
    CASE s = "extract_audio" -> 3 [] s = "transcribe" -> 7 [] s = "synthesize" -> 9

\* The run has stage s behind it: it went through the stage (it was not
\* short-circuited by the complete checkpoint) and wrote the stage's progress.
Behind(s) ==
    /\ HasEntry
    /\ pc \notin {"none", "queued"}
    /\ "finalize" \notin hist.restored
    /\ job_statuses[Job].progress >= StageProgress(s)

\* The payload stored under (job id, stage), and what the task holds as the
\* stage's output.
StoredPayload(s) == JsonLoads(store[CheckpointPath(CheckpointId(Job, StageKey(s)))]).data
Adopted(s) ==
    CASE s = "extract_audio" -> loc.audio_path = StoredPayload(s).audio_path
      [] s = "transcribe" -> loc.transcription = StoredPayload(s)
      [] s = "synthesize" -> loc.markdown = StoredPayload(s).markdown

\* C11 (checkpoint hit skips the engine): for every stage S that
\* process_media_file runs behind a load, a payload returned by the load means
\* the engine of S is not invoked in the run and the payload is S's output; no
\* payload means the engine is invoked and the save under (job id, S) is called.
C11_HitSkipsEngine ==
    \A s \in EngineStages :
        /\ s \in hist.hits => invoked[s] = 0
        /\ (Behind(s) /\ s \in hist.hits) => Adopted(s)
        /\ (Behind(s) /\ s \notin hist.hits /\ ~hist.engineFailed)
              => /\ invoked[s] >= 1
                 /\ CheckpointId(Job, StageKey(s)) \in hist.attempted

\* C12 (terminal fast path): a run that starts with the job's complete
\* checkpoint in the store and its result file on disk, on the unchanged input,
\* invokes no engine and ends complete at progress 1.0 with that result.
C12_TerminalFastPath ==
    (/\ hist.completeAtStart
     /\ UploadPath(hist.kind) # NoPath => Exists(fs, UploadPath(hist.kind)))
        => /\ \A s \in StageNames : invoked[s] = 0
           /\ pc = "done" => /\ StatusIs("complete")
                             /\ job_statuses[Job].progress = 10
                             /\ job_statuses[Job].result_path
                                    = StoredPayload("finalize").result_path

\* str(e) of the exception the engine of a stage raises into the orchestrator.
StageError(s) ==
    CASE s = "fetch" -> DownloadError
      [] s = "extract_audio" -> ExtractError
      [] s = "transcribe" -> TranscribeError
      [] s = "synthesize" -> SummarizeError
      [] s = "finalize" -> SaveTextError

\* A step in which the job's except branch runs.
FailStep ==
    /\ HasEntry /\ job_statuses[Job].status # "error"
    /\ Job \in DOMAIN job_statuses' /\ job_statuses'[Job].status = "error"

\* The checkpoint files that are not the job's.
ForeignRecords(st) == {n \in DOMAIN st : n \notin {CheckpointPath(CheckpointId(Job, k)) :
        k \in {"download_media", "extract_audio", "optimize_audio", "transcription",
                "markdown", "complete"}}}

\* C13 (failure semantics): in the step where an engine's exception reaches the
\* orchestrator the job becomes error with the captured message, its progress
\* and result reference stay as they were, and the registry entries, checkpoints
\* and files of every other job stay as they were; while the job is in error no
\* engine of it is invoked.
C13_FailureSemantics ==
    [][/\ FailStep =>
            /\ pc' = "done"
            /\ job_statuses'[Job].message = "Error: " \o StageError(hist'.failedAt)
            /\ job_statuses'[Job].progress = job_statuses[Job].progress
            /\ job_statuses'[Job].result_path = job_statuses[Job].result_path
            /\ \A j \in DOMAIN job_statuses \ {Job} :
                    j \in DOMAIN job_statuses' /\ job_statuses'[j] = job_statuses[j]
            /\ ForeignRecords(store') = ForeignRecords(store)
            /\ \A n \in ForeignRecords(store) : store'[n] = store[n]
            /\ \A f \in DOMAIN OtherFiles :
                    Exists(fs, f) => Exists(fs', f) /\ fs'[f] = fs[f]
       /\ (StatusIs("error") /\ Job \in DOMAIN job_statuses'
             /\ job_statuses'[Job].status = "error") => invoked' = invoked
      ]_vars

\* A job that failed at transcription or later, beside the other job.
C13_Witness ==
    /\ StatusIs("error")
    /\ hist.failedAt \in {"transcribe", "synthesize", "finalize"}
    /\ job_statuses[Job].progress >= 3
    /\ Other \in DOMAIN job_statuses
    /\ ForeignRecords(store) # {}

\* The job's own checkpoint files holding a complete record.
OwnRecords(st) == {n \in DOMAIN st \ ForeignRecords(st) : Parses(st[n])}

\* C14 (failure cleanup frame): in the step where the job fails, the input file
\* its registry entry names is deleted and the checkpoint store is left exactly
\* as it was, so every checkpoint of an earlier stage keeps its digest and
\* payload.
C14_FailureCleanupFrame ==
    [][FailStep =>
          /\ store' = store
          /\ job_statuses[Job].file_path # NoPath
                => ~Exists(fs', job_statuses[Job].file_path)
          /\ \A f \in DOMAIN fs : f # job_statuses[Job].file_path
                => Exists(fs', f) /\ fs'[f] = fs[f]
      ]_vars

\* A failed job whose input file is gone while the checkpoints of its earlier
\* stages are in the store.
C14_Witness ==
    /\ StatusIs("error")
    /\ job_statuses[Job].file_path # NoPath
    /\ ~Exists(fs, job_statuses[Job].file_path)
    /\ hist.failedAt \in {"transcribe", "synthesize", "finalize"}
    /\ OwnRecords(store) # {}

\* C15 (retry after error): in a run that retries a job which failed at stage
\* N, under the same job id and input reference, no engine of a stage before N
\* is invoked.
C15_RetryAfterError ==
    hist.retryOf \in StageNames
        => \A s \in StageNames :
               StageIndex(s) < StageIndex(hist.retryOf) => invoked[s] = 0

\* C16 (progress monotonicity): within one run every write to the job's
\* progress leaves it at least as large as it was, and between 0.0 and 1.0.
C16_ProgressMonotonic ==
    [][(HasEntry /\ Job \in DOMAIN job_statuses' /\ run' = run)
          => /\ job_statuses'[Job].progress >= job_statuses[Job].progress
             /\ job_statuses'[Job].progress \in 0..10
      ]_vars

\* A URL job that went through both orchestrators and ended complete.
C16_Witness ==
    /\ pc = "done"
    /\ loc.entry = "url"
    /\ StatusIs("complete")
    /\ invoked["fetch"] = 1
    /\ job_statuses[Job].progress = 10

\* The progress table of the specification, in tenths, as the steps from one
\* distinct value to the next: 0.0 at submission, then 0.1, 0.3, 0.7, 0.9, 1.0.
ProgressTableSteps == {<<0, 1>>, <<1, 3>>, <<3, 7>>, <<7, 9>>, <<9, 10>>}

\* C17 (progress table): in a first run without any failure every change of the
\* job's progress is a step of the table 0.1, 0.3, 0.7, 0.9, 1.0, and the run
\* ends complete at 1.0.
C17_ProgressTable ==
    /\ [][(/\ run = 1 /\ run' = 1 /\ hist'.faults = 0
            /\ HasEntry /\ Job \in DOMAIN job_statuses'
            /\ job_statuses'[Job].progress # job_statuses[Job].progress)
              => <<job_statuses[Job].progress, job_statuses'[Job].progress>>
                    \in ProgressTableSteps
         ]_vars
    /\ []((run = 1 /\ hist.faults = 0 /\ pc = "done")
             => (StatusIs("complete") /\ job_statuses[Job].progress = 10))

\* ---------------------------------------------------------------------------
\* SpecChunk: one chunked call, TranscriptionService._chunked_transcribe or
\* SummarizationService._process_long_text. The caller splits its input,
\* creates one task per chunk, waits for them in asyncio.gather, sorts the
\* results by chunk index, merges them and (transcription) removes the chunk
\* files. Each task runs its chunk inside `async with semaphore`. Chunk
\* indices are 1-based here, 0-based in the code.
\* ---------------------------------------------------------------------------

ChunkServices == {"transcription", "synthesis"}

\* The value the call's semaphore is created with.
ConcurrencyLimit(service) ==
    IF service = "transcription" THEN TranscribeLimit ELSE SynthesisLimit

SemaphoreFree_Always(value) == TRUE

\* Semaphore.acquire returns without waiting when the value is positive.
SemaphoreFree(value) == value > 0

Range(f) == {f[k] : k \in DOMAIN f}

\* The elements of a set of numbers, ascending: the order in which the loop over
\* range(chunks_count) appends the chunks it managed to create.
RECURSIVE Ascending(_)
Ascending(S) ==
    IF S = {} THEN <<>>
    ELSE LET least == CHOOSE x \in S : \A y \in S : x <= y
         IN  <<least>> \o Ascending(S \ {least})

\* What _perform_transcription returns for the piece `piece` of the audio: its
\* text and one segment, timed from the start of the chunk file.
TranscribeChunk(piece) ==
    [text |-> <<piece>>,
     segments |-> <<[id |-> 0, start |-> 0, end |-> 1, piece |-> piece]>>]

\* What _generate_markdown returns for the piece `piece` of the text, as lines:
\* with or without a title line and the blank line after it.
GenerateChunkMarkdown(piece, titled) ==
    (IF titled THEN <<[kind |-> "title", piece |-> piece],
                      [kind |-> "blank", piece |-> piece]>>
     ELSE <<>>)
    \o <<[kind |-> "body", piece |-> piece]>>

\* What _generate_with_llm returns for the piece `piece` when the engine call
\* succeeded: the engine's text, stripped. The engine may follow its title with
\* a blank line or go straight on to a section heading.
GenerateWithLlm(piece, titled, spaced) ==
    IF titled /\ ~spaced
    THEN <<[kind |-> "title", piece |-> piece], [kind |-> "heading", piece |-> piece],
           [kind |-> "body", piece |-> piece]>>
    ELSE GenerateChunkMarkdown(piece, titled)

\* What _generate_basic_structure returns for the piece `piece` of the text: a
\* title line and the blank line after it, the "## Summary" section, and the
\* sections made of the segments.
GenerateBasicStructure(piece) ==
    <<[kind |-> "title", piece |-> piece], [kind |-> "blank", piece |-> piece],
      [kind |-> "summary", piece |-> piece], [kind |-> "body", piece |-> piece]>>

\* What a synthesis task returns when self.llm(...) raised: the except branch of
\* _generate_with_llm returns the basic structure of the chunk.
FallbackResult(call, index) ==
    [index |-> index, value |-> GenerateBasicStructure(call.chunks[index])]

\* The value a chunk task returns together with its index.
ChunkResult(call, index) ==
    [index |-> index,
     value |-> IF call.service = "transcription"
               THEN TranscribeChunk(call.chunks[index])
               ELSE GenerateWithLlm(call.chunks[index], call.titled, call.spaced)]

\* asyncio.gather(*tasks): the results in the order of the tasks, whatever the
\* order in which they completed.
GatherResults(done, count) ==
    [k \in 1..count |-> CHOOSE r \in Range(done) : r.index = k]

\* sorted(results, key=index): stable insertion by index.
RECURSIVE SortedByIndex(_)
SortedByIndex(results) ==
    IF results = <<>> THEN <<>>
    ELSE LET rest == SortedByIndex(Tail(results))
             before == SelectSeq(rest, LAMBDA r : r.index < Head(results).index)
             after == SelectSeq(rest, LAMBDA r : ~(r.index < Head(results).index))
         IN  before \o <<Head(results)>> \o after

MergeInput_CompletionOrder(done, count) == done

\* What the merge step is handed: the gathered results sorted by chunk index,
\* stripped of the index.
MergeInput(done, count) == SortedByIndex(GatherResults(done, count))

NextOffset_LastChunkOnly(time_offset, chunk) ==
    IF chunk.segments # <<>> THEN chunk.segments[Len(chunk.segments)].end
    ELSE time_offset

\* `time_offset += chunk["segments"][-1]["end"]` when the chunk has segments.
NextOffset(time_offset, chunk) ==
    IF chunk.segments # <<>>
    THEN time_offset + chunk.segments[Len(chunk.segments)].end
    ELSE time_offset

\* The loop of _merge_transcriptions over the chunks after the first: the text is
\* appended (after a space), the segments are renumbered and shifted by the
\* time offset, which then grows by the end of the chunk's last segment.
RECURSIVE MergeRemaining(_, _, _)
MergeRemaining(acc, time_offset, rest) ==
    IF rest = <<>> THEN acc
    ELSE LET chunk == Head(rest)
             shifted == [k \in 1..Len(chunk.segments) |->
                           [id |-> Len(acc.segments) + k - 1,
                            start |-> chunk.segments[k].start + time_offset,
                            end |-> chunk.segments[k].end + time_offset,
                            piece |-> chunk.segments[k].piece]]
         IN  MergeRemaining(
                 [text |-> acc.text \o chunk.text,
                  segments |-> acc.segments \o shifted],
                 NextOffset(time_offset, chunk),
                 Tail(rest))

NoTranscription == [text |-> <<>>, segments |-> <<>>]

_merge_transcriptions(chunk_results) ==
    IF chunk_results = <<>> THEN NoTranscription
    ELSE LET first == Head(chunk_results)
         IN  MergeRemaining(
                 first,
                 IF first.segments # <<>> THEN first.segments[Len(first.segments)].end
                 ELSE 0,
                 Tail(chunk_results))

\* The combining loop of _process_long_text: the first chunk's markdown whole,
\* of every later chunk the lines after the first two when the first is a title.
RECURSIVE CombineMarkdown(_, _)
CombineMarkdown(first, markdowns) ==
    IF markdowns = <<>> THEN <<>>
    ELSE LET lines == Head(markdowns)
             kept == IF ~first /\ lines # <<>> /\ lines[1].kind = "title"
                     THEN SubSeq(lines, 3, Len(lines))
                     ELSE lines
         IN  kept \o CombineMarkdown(FALSE, Tail(markdowns))

\* The value the call returns from the sorted results.
Merge(service, sorted_results) ==
    LET values == [k \in 1..Len(sorted_results) |-> sorted_results[k].value]
    IN  IF service = "transcription" THEN _merge_transcriptions(values)
        ELSE CombineMarkdown(TRUE, values)

\* The tasks of the call that hold the semaphore.
ActiveWorkers == {i \in DOMAIN wpc : wpc[i] = "active"}

\* A chunked call on an input of 1..MaxChunks pieces.
InitChunk ==
    \E service \in ChunkServices, n \in 1..MaxChunks, titled \in BOOLEAN,
       spaced \in BOOLEAN :
        /\ service = "transcription" => titled = FALSE
        /\ ~titled => spaced
        /\ ck = [service |-> service, n |-> n, chunks |-> <<>>, titled |-> titled,
                 spaced |-> spaced]
        /\ cpc = "split"
        /\ wpc = <<>>
        /\ sem = 0
        /\ finished = <<>>
        /\ chunkFiles = {}
        /\ merged = <<>>
        /\ fs = InitialFiles
        /\ store = <<>>
        /\ tsCalls = 0
        /\ ret = NoCall
        /\ saved = <<>>
        /\ lock = [i \in Instances |-> Free]
        /\ task = [t \in Tasks |-> Idle]
        /\ job_statuses = <<>>
        /\ pc = "none"
        /\ loc = NoLocals
        /\ run = 0
        /\ invoked = [s \in StageNames |-> 0]
        /\ hist = NoHistory

chunkFrame == <<storeVars, concVars, pipeVars>>

\* _split_audio returns the chunk files whose ffmpeg run succeeded (a failed one
\* is skipped); _process_long_text cuts the segments into its text chunks. The
\* caller then creates the semaphore and one task per chunk.
CreateTasks(made) ==
    /\ cpc = "split"
    /\ ck.service = "synthesis" => made = 1..ck.n
    /\ ck' = [ck EXCEPT !.chunks = Ascending(made)]
    /\ chunkFiles' = IF ck.service = "transcription" THEN 1..Cardinality(made) ELSE {}
    /\ sem' = ConcurrencyLimit(ck.service)
    /\ wpc' = [i \in 1..Cardinality(made) |-> "waiting"]
    /\ cpc' = "gather"
    /\ UNCHANGED <<finished, merged, chunkFrame>>

\* _split_audio raises (ffprobe failed): the except branch of _chunked_transcribe
\* raises ApplicationError.
SplitFails ==
    /\ cpc = "split"
    /\ ck.service = "transcription"
    /\ cpc' = "raised"
    /\ UNCHANGED <<ck, wpc, sem, finished, chunkFiles, merged, chunkFrame>>

\* `async with semaphore:` entered by task i. The tasks reach the semaphore in the
\* order they were created and waiters are woken first come first served.
WorkerEnter(i) ==
    /\ wpc[i] = "waiting"
    /\ \A j \in 1..(i - 1) : wpc[j] # "waiting"
    /\ SemaphoreFree(sem)
    /\ sem' = sem - 1
    /\ wpc' = [wpc EXCEPT ![i] = "active"]
    /\ UNCHANGED <<ck, cpc, finished, chunkFiles, merged, chunkFrame>>

WorkerOutcomes == {"result", "fallback", "raise"}

\* The engine call of task i ends. The task returns the engine's result, or
\* raises (_perform_transcription raised; _load_model or the basic structure
\* raised), or, in a synthesis task whose self.llm(...) call raised, returns
\* the basic structure instead. Leaving the `async with` block releases the
\* semaphore in every case.
WorkerExit(i, outcome) ==
    /\ wpc[i] = "active"
    /\ outcome = "fallback" => ck.service = "synthesis"
    /\ sem' = sem + 1
    /\ wpc' = [wpc EXCEPT ![i] = IF outcome = "raise" THEN "failed" ELSE "done"]
    /\ finished' = CASE outcome = "result" -> Append(finished, ChunkResult(ck, i))
                     [] outcome = "fallback" -> Append(finished, FallbackResult(ck, i))
                     [] OTHER -> finished
    /\ UNCHANGED <<ck, cpc, chunkFiles, merged, chunkFrame>>

\* gather returns once every task has a result: sort, merge, remove the chunk
\* files, return.
GatherReturns ==
    /\ cpc = "gather"
    /\ \A i \in DOMAIN wpc : wpc[i] = "done"
    /\ merged' = Merge(ck.service, MergeInput(finished, Len(wpc)))
    /\ chunkFiles' = {}
    /\ cpc' = "returned"
    /\ UNCHANGED <<ck, wpc, sem, finished, chunkFrame>>

TaskRaised_Ignored(workers) == FALSE

\* One of the tasks gather waits for has ended with an exception.
TaskRaised(workers) == \E i \in DOMAIN workers : workers[i] = "failed"

\* gather raises as soon as one task has raised; the other tasks go on. The
\* except branch of _chunked_transcribe raises ApplicationError; an exception of
\* _process_long_text propagates to its caller.
GatherRaises ==
    /\ cpc = "gather"
    /\ TaskRaised(wpc)
    /\ cpc' = "raised"
    /\ UNCHANGED <<ck, wpc, sem, finished, chunkFiles, merged, chunkFrame>>

NextChunk ==
    \/ \E made \in SUBSET (1..ck.n) : CreateTasks(made)
    \/ SplitFails
    \/ \E i \in DOMAIN wpc : WorkerEnter(i)
    \/ \E i \in DOMAIN wpc, outcome \in WorkerOutcomes : WorkerExit(i, outcome)
    \/ GatherReturns
    \/ GatherRaises

SpecChunk == InitChunk /\ [][NextChunk]_vars

\* The event loop runs the caller again once the future of gather holds the
\* exception of a task.
SpecChunkFair == InitChunk /\ [][NextChunk]_vars /\ WF_vars(GatherRaises)

\* ---------------------------------------------------------------------------
\* Claims on SpecChunk
\* ---------------------------------------------------------------------------

\* C18 (concurrency cap): during a chunked call the number of chunk workers
\* inside the semaphore is at every instant at most the limit of the service,
\* 3 for chunked transcription and 2 for chunked synthesis.
C18_ConcurrencyCap ==
    cpc # "none" => Cardinality(ActiveWorkers) <= ConcurrencyLimit(ck.service)

\* The limit is reached while another task is still waiting for the semaphore.
C18_Witness ==
    /\ cpc = "gather"
    /\ Cardinality(ActiveWorkers) = ConcurrencyLimit(ck.service)
    /\ \E i \in DOMAIN wpc : wpc[i] = "waiting"
    /\ finished # <<>>

\* The pieces of the input in the order their content appears in what the call
\* returned.
PieceOrder(service, result) ==
    IF service = "transcription" THEN result.text
    ELSE LET bodies == SelectSeq(result, LAMBDA line : line.kind = "body")
         IN  [k \in 1..Len(bodies) |-> bodies[k].piece]

\* C19 (chunk ordering): whatever the order in which the chunk workers
\* completed, the merge step is handed the partial results in ascending chunk
\* index, and the content of the merged output follows the order of the chunks
\* in the input (for a transcription, the text and the segments, whose times
\* do not go back).
C19_ChunkOrdering ==
    cpc = "returned" =>
        LET input == MergeInput(finished, Len(wpc))
        IN  /\ Len(input) = Len(wpc)
            /\ \A k \in 1..Len(input) : input[k].index = k
            /\ PieceOrder(ck.service, merged) = ck.chunks
            /\ ck.service = "transcription" =>
                  /\ [k \in 1..Len(merged.segments) |-> merged.segments[k].piece]
                        = ck.chunks
                  /\ \A k \in 1..Len(merged.segments) :
                        /\ merged.segments[k].start < merged.segments[k].end
                        /\ k > 1 => merged.segments[k - 1].end
                                       <= merged.segments[k].start

\* A call on three or more chunks has returned although its workers did not
\* complete in the order of their chunks.
C19_Witness ==
    /\ cpc = "returned"
    /\ Len(wpc) >= 3
    /\ \E k \in 1..Len(finished) : finished[k].index # k

\* C20 (chunk cleanup): when a chunked transcription call has returned, with a
\* result or with an error, no chunk file created by its split remains on disk.
C20_ChunkCleanup ==
    (ck.service = "transcription" /\ cpc \in {"returned", "raised"})
        => chunkFiles = {}

\* C21 (chunk failure policy): a merged result is returned only when the worker
\* of every chunk succeeded; once the worker of any chunk has failed, the call
\* returns no merged output and ends by raising an error.
C21_ChunkFailurePolicy ==
    /\ [](cpc = "returned" =>
            /\ \A i \in DOMAIN wpc : wpc[i] = "done"
            /\ Len(finished) = Len(wpc))
    /\ []((cpc # "none" /\ TaskRaised(wpc)) =>
            (cpc \in {"gather", "raised"} /\ merged = <<>>))
    /\ ((cpc # "none" /\ \E i \in DOMAIN wpc : wpc[i] = "failed")
            ~> cpc = "raised")

\* The call has raised because of one chunk although another chunk's worker had
\* delivered its result.
C21_Witness ==
    /\ cpc = "raised"
    /\ \E i \in DOMAIN wpc : wpc[i] = "failed"
    /\ finished # <<>>
    /\ merged = <<>>

\* ---------------------------------------------------------------------------
\* SpecMerge: _merge_transcriptions applied to a list of chunk transcripts. The
\* list (in `finished`, already in chunk order) is built one chunk transcript
\* and one segment at a time: every list of at most MaxMergeChunks transcripts
\* with at most MaxSegments segments in all, each segment with
\* 0 <= start <= end <= MaxTime and starts that do not decrease within a chunk,
\* is reached; the merge is then applied to it.
\* ---------------------------------------------------------------------------

MergeCall ==
    [service |-> "transcription", n |-> 0, chunks |-> <<>>, titled |-> FALSE,
     spaced |-> TRUE]

RECURSIVE TotalSegments(_)
TotalSegments(results) ==
    IF results = <<>> THEN 0
    ELSE Len(Head(results).value.segments) + TotalSegments(Tail(results))

InitMerge ==
    /\ ck = MergeCall
    /\ cpc = "collect"
    /\ wpc = <<>>
    /\ sem = 0
    /\ finished = <<>>
    /\ chunkFiles = {}
    /\ merged = <<>>
    /\ fs = InitialFiles
    /\ store = <<>>
    /\ tsCalls = 0
    /\ ret = NoCall
    /\ saved = <<>>
    /\ lock = [i \in Instances |-> Free]
    /\ task = [t \in Tasks |-> Idle]
    /\ job_statuses = <<>>
    /\ pc = "none"
    /\ loc = NoLocals
    /\ run = 0
    /\ invoked = [s \in StageNames |-> 0]
    /\ hist = NoHistory

\* One more chunk transcript, so far without segments (_format_transcription of a
\* silent chunk).
AddChunkTranscript ==
    /\ cpc = "collect"
    /\ Len(finished) < MaxMergeChunks
    /\ finished' = Append(finished,
                          [index |-> Len(finished) + 1,
                           value |-> [text |-> <<Len(finished) + 1>>,
                                      segments |-> <<>>]])
    /\ UNCHANGED <<ck, cpc, wpc, sem, chunkFiles, merged, chunkFrame>>

\* One more segment of the last chunk transcript, timed within its chunk.
AddSegment(start, end) ==
    /\ cpc = "collect"
    /\ finished # <<>>
    /\ TotalSegments(finished) < MaxSegments
    /\ start <= end
    /\ LET last == finished[Len(finished)]
           segments == last.value.segments
       IN  /\ segments # <<>> => segments[Len(segments)].start <= start
           /\ finished' = [finished EXCEPT ![Len(finished)].value.segments =
                             Append(segments,
                                    [id |-> Len(segments), start |-> start,
                                     end |-> end, piece |-> last.index])]
    /\ UNCHANGED <<ck, cpc, wpc, sem, chunkFiles, merged, chunkFrame>>

\* final_result = self._merge_transcriptions(chunk_results)
MergeChunks ==
    /\ cpc = "collect"
    /\ merged' = Merge(ck.service, finished)
    /\ cpc' = "merged"
    /\ UNCHANGED <<ck, wpc, sem, finished, chunkFiles, chunkFrame>>

NextMerge ==
    \/ AddChunkTranscript
    \/ \E start \in 0..MaxTime, end \in 0..MaxTime : AddSegment(start, end)
    \/ MergeChunks

SpecMerge == InitMerge /\ [][NextMerge]_vars

\* ---------------------------------------------------------------------------
\* Claims on SpecMerge
\* ---------------------------------------------------------------------------

\* The sum of the end times of the last segments of the first `count` chunk
\* transcripts (those without segments add nothing).
RECURSIVE CumulativeEnd(_, _)
CumulativeEnd(results, count) ==
    IF count = 0 THEN 0
    ELSE LET segments == results[count].value.segments
         IN  CumulativeEnd(results, count - 1)
             + (IF segments = <<>> THEN 0 ELSE segments[Len(segments)].end)

\* The number of segments in the first `count` chunk transcripts.
SegmentsBefore(results, count) == TotalSegments(SubSeq(results, 1, count))

\* C22 (monotonic timestamps): in the merged transcript the start times of
\* adjacent segments never decrease, across chunk boundaries and chunks without
\* segments included, and every segment of a chunk appears shifted by the sum of
\* the end times of the last segments of all chunks before it.
C22_MonotonicTimestamps ==
    cpc = "merged" =>
        /\ Len(merged.segments) = TotalSegments(finished)
        /\ \A k \in 1..(Len(merged.segments) - 1) :
              merged.segments[k + 1].start >= merged.segments[k].start
        /\ \A c \in 1..Len(finished) :
              \A j \in 1..Len(finished[c].value.segments) :
                 LET own == finished[c].value.segments[j]
                     out == merged.segments[SegmentsBefore(finished, c - 1) + j]
                     shift == CumulativeEnd(finished, c - 1)
                 IN  /\ out.start = own.start + shift
                     /\ out.end = own.end + shift
                     /\ out.piece = own.piece

\* Three chunk transcripts were merged, the middle one without segments, the
\* first ending after its start, the last shifted by a positive offset.
C22_Witness ==
    /\ cpc = "merged"
    /\ Len(finished) = 3
    /\ finished[2].value.segments = <<>>
    /\ Len(finished[1].value.segments) = 2
    /\ finished[3].value.segments # <<>>
    /\ CumulativeEnd(finished, 2) > 0

\* ---------------------------------------------------------------------------
\* Claims on SpecCancel and SpecRun
\* ---------------------------------------------------------------------------

\* C23 (cancellation removes the entry for good): once cancel_job has returned
\* for the job, a status query for it answers not found, in every later state
\* of its in-flight run: no step of the run puts the entry back.
C23_CancelRemovesEntry ==
    hist.cancelled => get_status(job_statuses, Job).code = 404

\* The job was cancelled while its transcription was running, and the run has
\* since ended on the missing entry.
C23_Witness ==
    /\ hist.cancelled
    /\ hist.cancelledAt = "transcribe"
    /\ pc = "dead"
    /\ invoked["transcribe"] = 1

\* The run of the job has stopped: it returned or an exception ended it.
RunStopped == pc \in {"done", "dead"}

\* The paths of the job's input file (the upload, or the file its download
\* writes) and of the result file its run writes.
JobFiles ==
    {UploadPath(hist.kind), ResultPath(Job, run)}
    \cup (IF UrlOf(hist.kind) # NoPath THEN {DownloadPath(UrlOf(hist.kind), run)} ELSE {})

\* C24 (cancellation removes the files): once cancel_job has returned for the
\* job and its in-flight run has stopped, neither its input file nor a result
\* file written for it is on disk, wherever the cancellation fell in the run.
C24_CancelRemovesFiles ==
    (hist.cancelled /\ RunStopped) =>
        \A path \in JobFiles : path # NoPath => ~Exists(fs, path)

\* C25 (cancellation deletes checkpoints): once cancel_job has returned for the
\* job, no checkpoint record of that job is left in the store.
C25_CancelDeletesCheckpoints ==
    hist.cancelled => OwnRecords(store) = {}

\* The awaits of the run at which a stage engine is running: the download, the
\* two ffmpeg runs, the transcription, the synthesis and the write of the result.
EngineCalls == {"download", "ea_ffmpeg", "opt_ffmpeg", "transcribe", "summarize",
                "save_text"}

\* C30 (discarded output after cancellation): when the job was cancelled while a
\* stage engine call was running, no later step of its run writes the registry,
\* saves a checkpoint or writes a result file, and once the running call has
\* ended no further stage engine is started.
C30_DiscardedAfterCancel ==
    [][(hist.cancelled /\ hist.cancelledAt \in EngineCalls) =>
          /\ job_statuses' = job_statuses
          /\ store' = store
          /\ Exists(fs', ResultPath(Job, run)) => Exists(fs, ResultPath(Job, run))
          /\ pc # hist.cancelledAt => invoked' = invoked
      ]_vars

\* C28 (job termination): when every engine call and every store operation
\* returns or raises and the job is not cancelled, the submitted job eventually
\* has status complete or status error.
C28_JobTermination ==
    <>(Job \in DOMAIN job_statuses
          /\ job_statuses[Job].status \in {"complete", "error"})

\* A run went through every stage and ended complete.
C28_Witness ==
    /\ pc = "done"
    /\ StatusIs("complete")
    /\ invoked["transcribe"] = 1
    /\ invoked["synthesize"] = 1
    /\ invoked["finalize"] = 1

\* C29 (cleanup failures are absorbed): a failure of delete_file during cleanup,
\* of the temporary audio file after a successful run or of the input file after
\* a failed one, does not end the run by an exception and does not replace the
\* status and message recorded for the job.
C29_CleanupAbsorbed ==
    /\ pc # "dead"
    /\ Job \in DOMAIN job_statuses =>
          job_statuses[Job].message # "Error: " \o DeleteError

\* ---------------------------------------------------------------------------
\* SpecSweep: the checkpoint directory under save_checkpoint,
\* clean_old_checkpoints and delete_checkpoints of one CheckpointService, with
\* the clock advancing and records damaged from outside.  File names are
\* sequences of pieces of text, so that startswith and endswith compare them
\* piece by piece; job ids are what uuid4 yields, without "_": one of the two
\* ids here is a textual prefix of the other.
\* ---------------------------------------------------------------------------

SweepJobs == {<<"j", "1">>, <<"j", "1", "0">>}
SweepStages == {<<"complete">>, <<"extract", "_", "audio">>}

\* os.path.join(self.checkpoint_dir, f"{job_id}_{stage}.json")
CheckpointFile(job_id, stage) == job_id \o <<"_">> \o stage \o <<".json">>

\* A file in the directory that is no checkpoint record.
NotesFile == <<"j", "1", "_", "notes", ".txt">>

StartsWith(name, prefix) ==
    Len(prefix) <= Len(name) /\ SubSeq(name, 1, Len(prefix)) = prefix

EndsWith(name, suffix) ==
    Len(suffix) <= Len(name)
    /\ SubSeq(name, Len(name) - Len(suffix) + 1, Len(name)) = suffix

\* The "timestamp" of a record: datetime.now().isoformat() at an hour of the
\* clock, a text fromisoformat rejects, or no such key.
IsoTimestamp(hour) == [kind |-> "iso", hour |-> hour]
BadTimestamp == [kind |-> "bad", hour |-> 0]
NoTimestamp == [kind |-> "absent", hour |-> 0]

\* The dict save_checkpoint writes, as far as the sweep reads it.
TimedRecord(job_id, stage, timestamp) ==
    [job_id |-> job_id, stage |-> stage, timestamp |-> timestamp]

\* What damage from outside can leave in a record file.
SweepDamagedTexts ==
    {EmptyText, NonDictText}
    \cup {JsonDumps(TimedRecord(<<>>, <<>>, t)) : t \in {BadTimestamp, NoTimestamp}}

TooOld_Inclusive(age_hours, max_age_hours) == age_hours >= max_age_hours

\* `if age_hours > max_age_hours:`
TooOld(age_hours, max_age_hours) == age_hours > max_age_hours

\* (now - timestamp).total_seconds() / 3600, with the default timestamp of a
\* record that has none.
AgeHours(timestamp, now) ==
    IF timestamp.kind = "absent" THEN now + DefaultTimestampAge
    ELSE now - timestamp.hour

\* The body of the loop of clean_old_checkpoints for one file: it is removed
\* when reading it raises (json.loads, .get or fromisoformat: the inner except
\* branch) or when it is too old.
SweepRemoves(text, now, max_age_hours) ==
    IF ~Parses(text) THEN TRUE
    ELSE IF JsonLoads(text).timestamp.kind = "bad" THEN TRUE
    ELSE TooOld(AgeHours(JsonLoads(text).timestamp, now), max_age_hours)

\* The files clean_old_checkpoints removes: those named *.json that its loop
\* body removes.
SweptNames(st, now, max_age_hours) ==
    {n \in DOMAIN st : EndsWith(n, <<".json">>) /\ SweepRemoves(st[n], now, max_age_hours)}

DeletePrefix_NoSeparator(job_id) == job_id

\* prefix = f"{job_id}_"
DeletePrefix(job_id) == job_id \o <<"_">>

\* The files delete_checkpoints removes.
DeletedNames(st, job_id) ==
    {n \in DOMAIN st : StartsWith(n, DeletePrefix(job_id)) /\ EndsWith(n, <<".json">>)}

Without(st, names) == [n \in DOMAIN st \ names |-> st[n]]

InitSweep ==
    /\ store = [n \in {NotesFile} |-> EmptyText]
    /\ tsCalls = 0
    /\ ret = NoCall
    /\ fs = InitialFiles
    /\ saved = <<>>
    /\ lock = [i \in Instances |-> Free]
    /\ task = [t \in Tasks |-> Idle]
    /\ job_statuses = <<>>
    /\ pc = "none"
    /\ loc = NoLocals
    /\ run = 0
    /\ invoked = [s \in StageNames |-> 0]
    /\ hist = NoHistory
    /\ ck = NoChunkCall
    /\ cpc = "none"
    /\ wpc = <<>>
    /\ sem = 0
    /\ finished = <<>>
    /\ chunkFiles = {}
    /\ merged = <<>>

sweepFrame == <<fs, saved, concVars, pipeVars, chunkVars>>

\* save_checkpoint writes the record of (job_id, stage), stamped with the clock.
SweepSave(job_id, stage) ==
    /\ store' = WriteFile(store, CheckpointFile(job_id, stage),
                          JsonDumps(TimedRecord(job_id, stage, IsoTimestamp(tsCalls))))
    /\ ret' = NoCall
    /\ UNCHANGED <<tsCalls, sweepFrame>>

\* An hour passes.
ClockTick ==
    /\ tsCalls < MaxClock
    /\ tsCalls' = tsCalls + 1
    /\ ret' = NoCall
    /\ UNCHANGED <<store, sweepFrame>>

\* A record file is emptied or overwritten from outside.
SweepDamage(name, text) ==
    /\ Exists(store, name)
    /\ name # NotesFile
    /\ store' = WriteFile(store, name, text)
    /\ ret' = NoCall
    /\ UNCHANGED <<tsCalls, sweepFrame>>

\* clean_old_checkpoints(max_age_hours) returns the number of files it removed.
CleanOldCheckpoints(max_age_hours) ==
    LET swept == SweptNames(store, tsCalls, max_age_hours)
    IN  /\ store' = Without(store, swept)
        /\ ret' = [op |-> "sweep", before |-> store, now |-> tsCalls,
                   max_age_hours |-> max_age_hours, count |-> Cardinality(swept)]
        /\ UNCHANGED <<tsCalls, sweepFrame>>

\* delete_checkpoints(job_id) returns the number of files it removed.
DeleteCheckpoints(job_id) ==
    LET deleted == DeletedNames(store, job_id)
    IN  /\ store' = Without(store, deleted)
        /\ ret' = [op |-> "delete", before |-> store, job_id |-> job_id,
                   count |-> Cardinality(deleted)]
        /\ UNCHANGED <<tsCalls, sweepFrame>>

NextSweep ==
    \/ \E j \in SweepJobs, s \in SweepStages : SweepSave(j, s)
    \/ ClockTick
    \/ \E n \in DOMAIN store, t \in SweepDamagedTexts : SweepDamage(n, t)
    \/ \E max_age_hours \in 0..MaxAge : CleanOldCheckpoints(max_age_hours)
    \/ \E j \in SweepJobs : DeleteCheckpoints(j)

SpecSweep == InitSweep /\ [][NextSweep]_vars

\* ---------------------------------------------------------------------------
\* Claims on SpecSweep
\* ---------------------------------------------------------------------------

\* A record file whose text is the dict of a checkpoint with a timestamp that
\* reads as a time.
Dated(text) == Parses(text) /\ JsonLoads(text).timestamp.kind = "iso"

\* The record files of the directory.
RecordFiles(st) == {n \in DOMAIN st : EndsWith(n, <<".json">>)}

\* C26 (sweep): a sweep with a maximum age has removed every checkpoint record
\* whose timestamp is older than the maximum age and every record that cannot
\* be parsed, has kept every parsable record whose age is at most the maximum
\* age as it was, and has returned the number of files it removed.
C26_Sweep ==
    ret.op = "sweep" =>
        /\ \A n \in RecordFiles(ret.before) :
              LET text == ret.before[n]
              IN  /\ ~Parses(text) => ~Exists(store, n)
                  /\ (Dated(text)
                        /\ ret.now - JsonLoads(text).timestamp.hour > ret.max_age_hours)
                       => ~Exists(store, n)
                  /\ (Dated(text)
                        /\ ret.now - JsonLoads(text).timestamp.hour <= ret.max_age_hours)
                       => (Exists(store, n) /\ store[n] = text)
        /\ DOMAIN store \subseteq DOMAIN ret.before
        /\ ret.count = Cardinality(DOMAIN ret.before \ DOMAIN store)

\* A sweep removed a record for its age and a record that does not parse, and
\* kept a record whose age was exactly the maximum age.
C26_Witness ==
    /\ ret.op = "sweep"
    /\ \E n \in RecordFiles(ret.before) :
          /\ Dated(ret.before[n])
          /\ ret.now - JsonLoads(ret.before[n]).timestamp.hour > ret.max_age_hours
          /\ ~Exists(store, n)
    /\ \E n \in RecordFiles(ret.before) :
          /\ ~Parses(ret.before[n])
          /\ ~Exists(store, n)
    /\ \E n \in RecordFiles(ret.before) :
          /\ Dated(ret.before[n])
          /\ ret.now - JsonLoads(ret.before[n]).timestamp.hour = ret.max_age_hours
          /\ Exists(store, n)

AllPieces(n) == [k \in 1..n |-> k]

\* C31 (no silent partial output at split): the chunks a chunked transcription
\* hands to its workers and to the merge are the complete contiguous set of
\* pieces of the audio; when a chunk could not be created the call does not
\* return a transcript merged from the remaining chunks.
C31_NoPartialOutputAtSplit ==
    (ck.service = "transcription" /\ cpc \in {"gather", "returned"})
        => ck.chunks = AllPieces(ck.n)

\* The text-generation engine call of chunk i failed: its task handed back the
\* basic structure.
EngineFailed(i) == \E k \in 1..Len(finished) : finished[k] = FallbackResult(ck, i)

\* C32 (synthesis chunk failure): when the text-generation engine call failed
\* for a chunk of a chunked synthesis, the call does not return a merged
\* document.
C32_SynthesisChunkFailure ==
    (ck.service = "synthesis" /\ \E i \in DOMAIN wpc : EngineFailed(i))
        => cpc # "returned"

\* A chunk output without its title line and the blank line after the title.
WithoutTitle(lines) ==
    IF lines # <<>> /\ lines[1].kind = "title"
    THEN IF Len(lines) >= 2 /\ lines[2].kind = "blank"
         THEN SubSeq(lines, 3, Len(lines))
         ELSE Tail(lines)
    ELSE lines

\* The chunk outputs in chunk order, every one after the first without its
\* title.
RECURSIVE Concatenated(_, _)
Concatenated(first, outputs) ==
    IF outputs = <<>> THEN <<>>
    ELSE (IF first THEN Head(outputs) ELSE WithoutTitle(Head(outputs)))
         \o Concatenated(FALSE, Tail(outputs))

\* The outputs of the chunk tasks of the call, in chunk order.
ChunkOutputs ==
    LET input == MergeInput(finished, Len(wpc))
    IN  [k \in 1..Len(input) |-> input[k].value]

\* C33 (synthesis merge): the document a chunked synthesis returns is the chunk
\* outputs concatenated in chunk order, with only the title line (and the blank
\* line after it) of every chunk after the first removed, and it has exactly
\* one title line when every chunk output starts with one.
C33_SynthesisMerge ==
    (ck.service = "synthesis" /\ cpc = "returned") =>
        /\ merged = Concatenated(TRUE, ChunkOutputs)
        /\ (\A k \in 1..Len(ChunkOutputs) : ChunkOutputs[k][1].kind = "title")
              => Len(SelectSeq(merged, LAMBDA line : line.kind = "title")) = 1

\* ---------------------------------------------------------------------------
\* Further claims on the background task
\* ---------------------------------------------------------------------------

\* C34 (job isolation): no step of the run of a job, its failure handling and
\* cleanup included, and no cancel_job for its id, modifies or removes the
\* registry record of another job.
C34_JobIsolation ==
    [][(Other \in DOMAIN job_statuses) =>
          (Other \in DOMAIN job_statuses' /\ job_statuses'[Other] = job_statuses[Other])
      ]_vars

\* The job has failed, on a disk that refuses removals or not, or has been
\* cancelled after it started, and the record of the other job is as it was
\* when the job was submitted.
C34_Witness ==
    /\ \/ Job \in DOMAIN job_statuses /\ job_statuses[Job].status = "error"
       \/ hist.cancelled /\ hist.cancelledAt # "queued"
    /\ Other \in DOMAIN job_statuses
    /\ job_statuses[Other] = OtherEntry

\* The changes of status the orchestrator may make: queued to processing,
\* processing to complete or error, and queued to complete for a URL job
\* restored from its complete checkpoint.
StatusTransitions(entry) ==
    {<<"queued", "processing">>, <<"processing", "complete">>,
     <<"processing", "error">>}
    \cup (IF entry = "url" THEN {<<"queued", "complete">>} ELSE {})

\* C35 (status transitions): within one run, every change of the job's status
\* is one of queued -> processing, processing -> complete, processing -> error
\* and, on the URL fast path, queued -> complete; so a status of complete or
\* error is not changed by a later step of the run.
C35_StatusTransitions ==
    [][(/\ HasEntry /\ Job \in DOMAIN job_statuses' /\ run' = run
        /\ job_statuses'[Job].status # job_statuses[Job].status)
          => <<job_statuses[Job].status, job_statuses'[Job].status>>
                \in StatusTransitions(loc.entry)
      ]_vars

\* C36 (complete implies result): whenever a status query can run, a job whose
\* status is complete has progress 1.0 and its result reference set, and the
\* answer of get_status carries a result reference only for a job whose status
\* is complete.
C36_CompleteImpliesResult ==
    \A j \in DOMAIN job_statuses :
        LET answer == get_status(job_statuses, j)
        IN  /\ answer.status = "complete"
                => /\ answer.progress = 10
                   /\ job_statuses[j].result_path # NoPath
                   /\ answer.result_url # ""
            /\ answer.result_url # "" => job_statuses[j].status = "complete"

\* The job was started again and restored from its complete checkpoint: it is
\* complete again, with the result of the earlier run.
C36_Witness ==
    /\ pc = "done"
    /\ run > 1
    /\ StatusIs("complete")
    /\ job_statuses[Job].message = "Processing complete (restored from checkpoint)"
    /\ get_status(job_statuses, Job).result_url = "/download/j1"
    /\ Exists(fs, job_statuses[Job].result_path)

\* ---------------------------------------------------------------------------
\* A further claim on SpecChunk
\* ---------------------------------------------------------------------------

\* C37 (no worker outlives the call): when a chunked call has returned or
\* raised, every chunk task it created has ended: none holds the semaphore and
\* none is still waiting for it.
C37_NoWorkerOutlivesCall ==
    cpc \in {"returned", "raised"}
        => \A i \in DOMAIN wpc : wpc[i] \in {"done", "failed"}

\* ---------------------------------------------------------------------------
\* SpecCache: SummarizationService.summarize called by the runs of two jobs
\* whose transcripts have the same text, hence the same cache file
\* md5(text).md. Each call is cut at its awaits; the calls share no lock.
\* ---------------------------------------------------------------------------

\* os.path.join(self.cache_dir, f"{cache_key}.md") for the text of both jobs.
CacheFile == "summaries/k.md"

\* The document the engine generates for that text, in blocks.
SummaryDoc == [k \in 1..MaxDocBlocks |-> <<"md", k>>]

InitCache ==
    \E cached \in BOOLEAN :
        /\ fs = IF cached THEN [p \in {CacheFile} |-> SummaryDoc] ELSE <<>>
        /\ task = [t \in Tasks |-> [pc |-> "check", markdown |-> <<>>]]
        /\ store = <<>>
        /\ tsCalls = 0
        /\ ret = NoCall
        /\ saved = <<>>
        /\ lock = [i \in Instances |-> Free]
        /\ job_statuses = <<>>
        /\ pc = "none"
        /\ loc = NoLocals
        /\ run = 0
        /\ invoked = [s \in StageNames |-> 0]
        /\ hist = NoHistory
        /\ ck = NoChunkCall
        /\ cpc = "none"
        /\ wpc = <<>>
        /\ sem = 0
        /\ finished = <<>>
        /\ chunkFiles = {}
        /\ merged = <<>>

cacheFrame == <<store, tsCalls, ret, saved, lock, pipeVars, chunkVars>>

\* `if os.path.exists(cache_file):` then `aiofiles.open(cache_file, "r")`, or
\* on to the generation.
CacheCheck(t) ==
    /\ task[t].pc = "check"
    /\ task' = [task EXCEPT ![t].pc = IF Exists(fs, CacheFile) THEN "read" ELSE "generate"]
    /\ UNCHANGED <<fs, cacheFrame>>

\* `markdown = await f.read()`; `return markdown`: what the file holds now.
CacheRead(t) ==
    /\ task[t].pc = "read"
    /\ task' = [task EXCEPT ![t].pc = "returned", ![t].markdown = fs[CacheFile]]
    /\ UNCHANGED <<fs, cacheFrame>>

\* _process_long_text or _generate_markdown returns the document, or raises and
\* summarize raises ApplicationError.
GenerateSummary(t, ok) ==
    /\ task[t].pc = "generate"
    /\ task' = IF ok THEN [task EXCEPT ![t].pc = "open", ![t].markdown = SummaryDoc]
               ELSE [task EXCEPT ![t].pc = "raised"]
    /\ UNCHANGED <<fs, cacheFrame>>

\* `aiofiles.open(cache_file, "w")`: the file is created or truncated.
CacheOpen(t) ==
    /\ task[t].pc = "open"
    /\ fs' = WriteFile(fs, CacheFile, <<>>)
    /\ task' = [task EXCEPT ![t].pc = "write"]
    /\ UNCHANGED cacheFrame

\* `await f.write(markdown)`: when it returns, the first `flushed` blocks have
\* left the buffer of the file object. Both writers write the same blocks at
\* the same offsets.
CacheWrite(t, flushed) ==
    /\ task[t].pc = "write"
    /\ fs' = IF flushed > Len(fs[CacheFile])
             THEN WriteFile(fs, CacheFile, SubSeq(task[t].markdown, 1, flushed))
             ELSE fs
    /\ task' = [task EXCEPT ![t].pc = "close"]
    /\ UNCHANGED cacheFrame

\* Leaving `async with`: the file is flushed and closed; `return markdown`.
CacheClose(t) ==
    /\ task[t].pc = "close"
    /\ fs' = WriteFile(fs, CacheFile, task[t].markdown)
    /\ task' = [task EXCEPT ![t].pc = "returned"]
    /\ UNCHANGED cacheFrame

NextCache ==
    \/ \E t \in Tasks : CacheCheck(t)
    \/ \E t \in Tasks : CacheRead(t)
    \/ \E t \in Tasks, ok \in BOOLEAN : GenerateSummary(t, ok)
    \/ \E t \in Tasks : CacheOpen(t)
    \/ \E t \in Tasks, flushed \in 0..MaxDocBlocks : CacheWrite(t, flushed)
    \/ \E t \in Tasks : CacheClose(t)

SpecCache == InitCache /\ [][NextCache]_vars

\* C38 (shared summary cache under concurrency): each of two concurrent
\* summarize calls on the same text that returns, returns the complete
\* synthesized document, never an empty or partly written cached one.
C38_SharedSummaryCache ==
    \A t \in Tasks : task[t].pc = "returned" => task[t].markdown = SummaryDoc

\* ---------------------------------------------------------------------------
\* SpecCalls: two chunked calls of the same service running at the same time,
\* one per job, in one event loop. Each call creates its own semaphore: it is
\* a local variable of _chunked_transcribe / _process_long_text. Here cpc, wpc
\* and sem hold, per call, what they hold for the single call of SpecChunk.
\* ---------------------------------------------------------------------------

InitCalls ==
    \E service \in ChunkServices, n \in 1..MaxChunks :
        /\ ck = [service |-> service, n |-> n, chunks |-> AllPieces(n),
                 titled |-> FALSE, spaced |-> TRUE]
        /\ cpc = [t \in Tasks |-> "split"]
        /\ wpc = [t \in Tasks |-> <<>>]
        /\ sem = [t \in Tasks |-> 0]
        /\ finished = <<>>
        /\ chunkFiles = {}
        /\ merged = <<>>
        /\ fs = InitialFiles
        /\ store = <<>>
        /\ tsCalls = 0
        /\ ret = NoCall
        /\ saved = <<>>
        /\ lock = [i \in Instances |-> Free]
        /\ task = [t \in Tasks |-> Idle]
        /\ job_statuses = <<>>
        /\ pc = "none"
        /\ loc = NoLocals
        /\ run = 0
        /\ invoked = [s \in StageNames |-> 0]
        /\ hist = NoHistory

callsFrame == <<ck, finished, chunkFiles, merged, chunkFrame>>

\* `semaphore = asyncio.Semaphore(...)` and one task per chunk, in call t.
CallCreateTasks(t) ==
    /\ cpc[t] = "split"
    /\ sem' = [sem EXCEPT ![t] = ConcurrencyLimit(ck.service)]
    /\ wpc' = [wpc EXCEPT ![t] = [i \in 1..ck.n |-> "waiting"]]
    /\ cpc' = [cpc EXCEPT ![t] = "gather"]
    /\ UNCHANGED callsFrame

\* `async with semaphore:` entered by task i of call t, on the semaphore of
\* that call.
CallWorkerEnter(t, i) ==
    /\ wpc[t][i] = "waiting"
    /\ \A j \in 1..(i - 1) : wpc[t][j] # "waiting"
    /\ SemaphoreFree(sem[t])
    /\ sem' = [sem EXCEPT ![t] = sem[t] - 1]
    /\ wpc' = [wpc EXCEPT ![t][i] = "active"]
    /\ UNCHANGED <<cpc, callsFrame>>

\* The engine call of task i of call t ends and the semaphore is released.
CallWorkerExit(t, i) ==
    /\ wpc[t][i] = "active"
    /\ sem' = [sem EXCEPT ![t] = sem[t] + 1]
    /\ wpc' = [wpc EXCEPT ![t][i] = "done"]
    /\ UNCHANGED <<cpc, callsFrame>>

\* gather of call t returns and the call returns its merged result.
CallReturns(t) ==
    /\ cpc[t] = "gather"
    /\ \A i \in DOMAIN wpc[t] : wpc[t][i] = "done"
    /\ cpc' = [cpc EXCEPT ![t] = "returned"]
    /\ UNCHANGED <<wpc, sem, callsFrame>>

NextCalls ==
    \/ \E t \in Tasks : CallCreateTasks(t)
    \/ \E t \in Tasks : \E i \in DOMAIN wpc[t] : CallWorkerEnter(t, i)
    \/ \E t \in Tasks : \E i \in DOMAIN wpc[t] : CallWorkerExit(t, i)
    \/ \E t \in Tasks : CallReturns(t)

SpecCalls == InitCalls /\ [][NextCalls]_vars

\* The chunk workers of all calls that are inside `async with semaphore`.
AllActiveWorkers ==
    {<<t, i>> \in Tasks \X (1..MaxChunks) : i \in DOMAIN wpc[t] /\ wpc[t][i] = "active"}

\* C39 (global worker bound): with several jobs in chunked transcription (or
\* chunked synthesis) at the same time, the chunk workers active across all of
\* them number at most 3 (respectively 2).
C39_GlobalWorkerBound ==
    Cardinality(AllActiveWorkers) <= ConcurrencyLimit(ck.service)

\* ---------------------------------------------------------------------------
\* SpecSplit: the loop of _process_long_text that cuts the segments of a
\* transcript into the chunks of a chunked synthesis. A transcript is built
\* segment by segment (in `finished`), then split (into `merged`).
\* ---------------------------------------------------------------------------

\* len(segment["text"]) of the segments tried: an empty text, and texts that
\* fill a chunk in two segments or in one.
SegmentLengths == {0, 2499, 4999}

KeepRemainder_Never(current_len) == FALSE

\* `if current_chunk:` after the loop: the text collected since the last cut is
\* not empty.
KeepRemainder(current_len) == current_len > 0

\* `if len(current_chunk) >= chunk_size:`
ChunkFull(current_len) == current_len >= ChunkSize

\* The loop over the segments: each adds its text and a space to the current
\* chunk and itself to the current segments; a full chunk is appended and a new
\* one started; what remains after the last segment is appended too.
RECURSIVE SplitLoop(_, _, _, _)
SplitLoop(rest, current_len, current_segments, segment_chunks) ==
    IF rest = <<>>
    THEN IF KeepRemainder(current_len)
         THEN Append(segment_chunks, current_segments)
         ELSE segment_chunks
    ELSE LET len == current_len + Head(rest).len + 1
             segs == Append(current_segments, Head(rest))
         IN  IF ChunkFull(len)
             THEN SplitLoop(Tail(rest), 0, <<>>, Append(segment_chunks, segs))
             ELSE SplitLoop(Tail(rest), len, segs, segment_chunks)

\* segment_chunks of _process_long_text for transcription["segments"].
SplitSegments(segments) == SplitLoop(segments, 0, <<>>, <<>>)

InitSplit ==
    /\ finished = <<>>
    /\ merged = <<>>
    /\ cpc = "collect"
    /\ ck = NoChunkCall
    /\ wpc = <<>>
    /\ sem = 0
    /\ chunkFiles = {}
    /\ fs = InitialFiles
    /\ store = <<>>
    /\ tsCalls = 0
    /\ ret = NoCall
    /\ saved = <<>>
    /\ lock = [i \in Instances |-> Free]
    /\ task = [t \in Tasks |-> Idle]
    /\ job_statuses = <<>>
    /\ pc = "none"
    /\ loc = NoLocals
    /\ run = 0
    /\ invoked = [s \in StageNames |-> 0]
    /\ hist = NoHistory

splitFrame == <<ck, wpc, sem, chunkFiles, chunkFrame>>

\* The transcript gets one more segment, with a text of the given length.
AddTranscriptSegment(len) ==
    /\ cpc = "collect"
    /\ Len(finished) < MaxSplitSegments
    /\ finished' = Append(finished, [id |-> Len(finished), len |-> len])
    /\ UNCHANGED <<merged, cpc, splitFrame>>

\* _process_long_text cuts the transcript.
SplitTranscript ==
    /\ cpc = "collect"
    /\ merged' = SplitSegments(finished)
    /\ cpc' = "cut"
    /\ UNCHANGED <<finished, splitFrame>>

NextSplit ==
    \/ \E len \in SegmentLengths : AddTranscriptSegment(len)
    \/ SplitTranscript

SpecSplit == InitSplit /\ [][NextSplit]_vars

\* The segments of a sequence of chunks, in order.
RECURSIVE Flattened(_)
Flattened(chunks) ==
    IF chunks = <<>> THEN <<>> ELSE Head(chunks) \o Flattened(Tail(chunks))

\* C40 (synthesis splitter partitions the transcript): the segment chunks built
\* for a chunked synthesis, concatenated in chunk order, are the segments of
\* the transcript, each once and in order, and no chunk is empty; a transcript
\* with a segment gives at least one chunk.
C40_SplitterPartitions ==
    cpc = "cut" =>
        /\ Flattened(merged) = finished
        /\ \A k \in 1..Len(merged) : merged[k] # <<>>
        /\ finished # <<>> => merged # <<>>

\* A transcript was cut into a chunk of two segments that fill it and a last
\* chunk that is not full.
C40_Witness ==
    /\ cpc = "cut"
    /\ Len(merged) >= 2
    /\ Len(merged[1]) = 2
    /\ ~ChunkFull(merged[Len(merged)][1].len + 1)
    /\ Len(finished) >= 3
====
